---- MODULE Spec2Model ----
(***************************************************************************)
(* UE worker pool of opencue-ue-services: TaskQueue (ue_agent/models.py),  *)
(* UEWorkerPool (ue_agent/worker_pool.py) and the HTTP handlers that call  *)
(* them (ue_worker_service.py).                                            *)
(*                                                                         *)
(* Every handler is a synchronous function or a coroutine that never       *)
(* suspends (spawn_worker and kill_worker contain no await that yields),   *)
(* so on the single asyncio event loop each handler, and each reconcile    *)
(* tick, runs to completion: one action per handler.                       *)
(*                                                                         *)
(* Time is kept as elapsed seconds since the instant the code recorded     *)
(* (last_heartbeat, _spawn_times[id]); every comparison in the code uses   *)
(* only such differences.  Elapsed values saturate just above the          *)
(* threshold they are compared with.  created_at is kept as an ordinal     *)
(* stamp, which is all that sorting by it uses.                            *)
(***************************************************************************)
EXTENDS Integers, Sequences, FiniteSets, TLC

Min(a, b) == IF a < b THEN a ELSE b
Max(a, b) == IF a > b THEN a ELSE b

\* ------------------------------------------------------------------ bounds
MaxTasks == 2
MaxWorkerIndex == 1
MaxMinWorkers == 1
MaxMaxWorkers == 2
MaxScaleTarget == 2
\* orphan processes on the host when the daemon starts
MaxOrphans == 1
\* how far StatsSpec counts tasks_completed / tasks_failed
StatCap == 2
TimeStep == 150

\* --------------------------------------------------- constants of the code
WORKER_STARTUP_GRACE_SEC == 300
WORKER_HEARTBEAT_TIMEOUT_SEC == 60
WORKER_STARTUP_TIMEOUT_SEC == 300

\* TaskStatus
PENDING == "pending"
ASSIGNED == "assigned"
RUNNING == "running"
COMPLETED == "completed"
FAILED == "failed"
CANCELED == "canceled"

\* WorkerStatus
STARTING == "starting"
IDLE == "idle"
BUSY == "busy"
STOPPING == "stopping"
DEAD == "dead"

TaskStatus == {PENDING, ASSIGNED, RUNNING, COMPLETED, FAILED, CANCELED}
WorkerStatus == {STARTING, IDLE, BUSY, STOPPING, DEAD}
TerminalStatus == {COMPLETED, FAILED, CANCELED}

\* None for a task id, a worker id, a pid
NoTask == 0
NoWorker == -2
NoPid == 0
HasPid == 1

\* worker ids: <hostIP>-w<i> is i; ids the pool did not generate are negative
ExternalIds == {-1}
GeneratedIds == 0 .. (MaxWorkerIndex - 1)
WorkerIds == GeneratedIds \cup ExternalIds

\* an optional string field that is None
NoString == "<none>"
\* TaskDoneRequest.video_directory / error_message
VideoDirs == {NoString, "dir"}
ErrorMessages == {NoString, "err"}
\* HeartbeatRequest.status: absent, or a string
NoStatus == "<absent>"
HeartbeatStatuses == {NoStatus, "", "busy"}

\* outcome of one spawn_worker call
SpawnOutcomes == {"ok", "no_cmd", "popen_fail"}
\* spawn_worker calls one handler can make: respawn + fresh, or scale-up
MaxSpawnsPerCall == Max(2 * MaxMinWorkers, MaxMaxWorkers)

\* Optional[int] None of --task-index, and a process that has not exited
NoIndex == -999
NoExit == -1
\* _last_percent = -1.0 of a reporter that has pushed nothing, in hundredths
NoPercent == -100

VARIABLES
    phase,          \* "constructed" | "swept" | "started" | "serving" | "stopped"
    min_workers,    \* config.min_workers
    max_workers,    \* config.max_workers
    tasks,          \* TaskQueue._tasks: sequence in insertion order, task_id = index
    workers,        \* TaskQueue._workers: worker_id -> Worker
    order,          \* key order of TaskQueue._workers
    processes,      \* keys of UEWorkerPool._processes
    spawn_times,    \* UEWorkerPool._spawn_times: worker_id -> seconds since spawn
    worker_index,   \* UEWorkerPool._worker_index
    running,        \* worker ids whose recorded pid is a running OS process
    utcnow,         \* ordinal of the current instant, for created_at
    stat_cap,       \* how far tasks_completed / tasks_failed are counted
    orphans,        \* UE worker processes left running by an earlier daemon
    \* run_one_shot_plan.py: one run of the one-shot runner
    rpc,            \* position of run_one_shot_plan
    renv,           \* command line, environment and files the run is given
    task_index,     \* result of _task_index
    exit_code,      \* exit code of the runner process
    ue,             \* the UE process: state, lines on stdout, lines in the log
    reporter,       \* fields of _CueFrameProgressReporter
    readers,        \* stdout loop and log tailer: position and step in report
    pushes,         \* calls of setFrameStateDisplayOverride, in order
    rnow,           \* time.monotonic(), in seconds
    uelog,          \* the UE log file (-AbsLog): its content and its writer
    tailer          \* _UELogTailer._run: position, place in the loop, lines
                    \* handed to on_line

tailvars == <<uelog, tailer>>

runnervars == <<rpc, renv, task_index, exit_code, ue, reporter, readers,
                pushes, rnow, tailvars>>

servicevars == <<phase, min_workers, max_workers, tasks, workers, order,
                 processes, spawn_times, worker_index, running, utcnow,
                 stat_cap, orphans>>

vars == <<phase, min_workers, max_workers, tasks, workers, order, processes,
          spawn_times, worker_index, running, utcnow, stat_cap, orphans,
          rpc, renv, task_index, exit_code, ue, reporter, readers, pushes,
          rnow, uelog, tailer>>

poolvars == <<workers, order, processes, spawn_times, worker_index, running>>

\* ----------------------------------------------------------------- helpers
TaskIds == 1 .. Len(tasks)

RECURSIVE SeqContains(_, _)
SeqContains(s, x) ==
    IF s = <<>> THEN FALSE
    ELSE IF Head(s) = x THEN TRUE ELSE SeqContains(Tail(s), x)

\* seq[:n] of Python, n possibly negative
PySlicePrefix(s, n) ==
    LET k == IF n >= 0 THEN Min(n, Len(s)) ELSE Max(Len(s) + n, 0)
    IN  SubSeq(s, 1, k)

\* elapsed-time arithmetic, saturating just above the threshold
AgeCap == WORKER_STARTUP_TIMEOUT_SEC + 1
HbCap == WORKER_HEARTBEAT_TIMEOUT_SEC + 1
AddAge(a, d) == Min(a + d, AgeCap)
AddHb(a, d) == Min(a + d, HbCap)

\* tasks_completed += 1 / tasks_failed += 1.  No code path reads the two
\* counters, so the model counts them exactly up to stat_cap and lets them
\* saturate there.
AddStat(c, cap) == Min(c + 1, cap)

\* the pool state the handlers work on, as one record
Pool == [workers |-> workers, order |-> order, processes |-> processes,
         spawn_times |-> spawn_times, worker_index |-> worker_index,
         running |-> running, tasks |-> tasks, stat_cap |-> stat_cap]

\* ------------------------------------------------------------- models.py
\* Worker.create
\* leases is history kept for the claims about the counters: the number
\* of tasks assigned to this record, counted like the counters (AddStat).
NewWorker == [status |-> STARTING, process_id |-> NoPid,
              current_task_id |-> NoTask, last_heartbeat |-> 0,
              tasks_completed |-> 0, tasks_failed |-> 0, leases |-> 0]

\* RenderTask.create
NewTask(now) == [status |-> PENDING, assigned_worker_id |-> NoWorker,
                 created_at |-> now, success |-> FALSE,
                 video_directory |-> NoString, error_message |-> NoString]

\* Worker.update_heartbeat
update_heartbeat(w) == [w EXCEPT !.last_heartbeat = 0]

\* TaskQueue.register_worker
register_worker(P, wid, w) ==
    [P EXCEPT !.workers = (wid :> w) @@ P.workers,
              !.order = IF wid \in DOMAIN P.workers THEN P.order
                        ELSE Append(P.order, wid)]

\* get_pending_task sorting newest first
get_pending_task_newest(ts) ==
    LET pending == {i \in 1 .. Len(ts) : ts[i].status = PENDING}
    IN  IF pending = {} THEN NoTask
        ELSE CHOOSE i \in pending :
               \A j \in pending :
                   \/ ts[i].created_at > ts[j].created_at
                   \/ ts[i].created_at = ts[j].created_at /\ i >= j

\* TaskQueue.get_pending_task: stable sort by created_at, first element
get_pending_task(ts) ==
    LET pending == {i \in 1 .. Len(ts) : ts[i].status = PENDING}
    IN  IF pending = {} THEN NoTask
        ELSE CHOOSE i \in pending :
               \A j \in pending :
                   \/ ts[i].created_at < ts[j].created_at
                   \/ ts[i].created_at = ts[j].created_at /\ i <= j

\* assign_task_to_worker that forgets to set the task ASSIGNED
assign_task_to_worker_keep_pending(P, task_id, worker_id) ==
    IF task_id \notin 1 .. Len(P.tasks) \/ worker_id \notin DOMAIN P.workers
    THEN [ok |-> FALSE, P |-> P]
    ELSE IF P.tasks[task_id].status # PENDING
    THEN [ok |-> FALSE, P |-> P]
    ELSE [ok |-> TRUE,
          P |-> [P EXCEPT
                   !.tasks[task_id].assigned_worker_id = worker_id,
                   !.workers[worker_id].current_task_id = task_id,
                   !.workers[worker_id].status = BUSY]]

\* assign_task_to_worker that marks the leased task RUNNING
assign_task_to_worker_running(P, task_id, worker_id) ==
    IF task_id \notin 1 .. Len(P.tasks) \/ worker_id \notin DOMAIN P.workers
    THEN [ok |-> FALSE, P |-> P]
    ELSE IF P.tasks[task_id].status # PENDING
    THEN [ok |-> FALSE, P |-> P]
    ELSE [ok |-> TRUE,
          P |-> [P EXCEPT
                   !.tasks[task_id].status = RUNNING,
                   !.tasks[task_id].assigned_worker_id = worker_id,
                   !.workers[worker_id].current_task_id = task_id,
                   !.workers[worker_id].status = BUSY,
                   !.workers[worker_id].leases = AddStat(@, P.stat_cap)]]

\* TaskQueue.assign_task_to_worker: [ok, P]
assign_task_to_worker(P, task_id, worker_id) ==
    IF task_id \notin 1 .. Len(P.tasks) \/ worker_id \notin DOMAIN P.workers
    THEN [ok |-> FALSE, P |-> P]
    ELSE IF P.tasks[task_id].status # PENDING
    THEN [ok |-> FALSE, P |-> P]
    ELSE [ok |-> TRUE,
          P |-> [P EXCEPT
                   !.tasks[task_id].status = ASSIGNED,
                   !.tasks[task_id].assigned_worker_id = worker_id,
                   !.workers[worker_id].current_task_id = task_id,
                   !.workers[worker_id].status = BUSY,
                   !.workers[worker_id].leases = AddStat(@, P.stat_cap)]]

\* complete_task putting a failed task back to PENDING
queue_complete_task_retry(P, task_id, success, video_directory, error_message) ==
    IF task_id \notin 1 .. Len(P.tasks) THEN [ok |-> FALSE, P |-> P]
    ELSE
      LET wid == P.tasks[task_id].assigned_worker_id
          P1 == [P EXCEPT !.tasks[task_id].status =
                              IF success THEN COMPLETED ELSE PENDING,
                          !.tasks[task_id].success = success,
                          !.tasks[task_id].video_directory = video_directory,
                          !.tasks[task_id].error_message = error_message]
      IN  [ok |-> TRUE,
           P |-> IF wid # NoWorker /\ wid \in DOMAIN P.workers
                 THEN [P1 EXCEPT !.workers[wid].current_task_id = NoTask,
                                 !.workers[wid].status = IDLE]
                 ELSE P1]

\* TaskQueue.complete_task: [ok, P]
queue_complete_task(P, task_id, success, video_directory, error_message) ==
    IF task_id \notin 1 .. Len(P.tasks) THEN [ok |-> FALSE, P |-> P]
    ELSE
      LET wid == P.tasks[task_id].assigned_worker_id
          P1 == [P EXCEPT !.tasks[task_id].status =
                              IF success THEN COMPLETED ELSE FAILED,
                          !.tasks[task_id].success = success,
                          !.tasks[task_id].video_directory = video_directory,
                          !.tasks[task_id].error_message = error_message]
      IN  [ok |-> TRUE,
           P |-> IF wid # NoWorker /\ wid \in DOMAIN P.workers
                 THEN [P1 EXCEPT !.workers[wid].current_task_id = NoTask,
                                 !.workers[wid].status = IDLE,
                                 !.workers[wid].tasks_completed =
                                     IF success THEN AddStat(@, P.stat_cap)
                                     ELSE @,
                                 !.workers[wid].tasks_failed =
                                     IF success THEN @
                                     ELSE AddStat(@, P.stat_cap)]
                 ELSE P1]

\* cancel_task without the check of the task's status
queue_cancel_task_any_status(P, task_id) ==
    IF task_id \notin 1 .. Len(P.tasks) THEN [ok |-> FALSE, P |-> P]
    ELSE
      LET wid == P.tasks[task_id].assigned_worker_id
          P1 == [P EXCEPT !.tasks[task_id].status = CANCELED]
      IN  [ok |-> TRUE,
           P |-> IF wid # NoWorker /\ wid \in DOMAIN P.workers
                 THEN [P1 EXCEPT !.workers[wid].current_task_id = NoTask,
                                 !.workers[wid].status = IDLE]
                 ELSE P1]

\* TaskQueue.cancel_task: [ok, P]
queue_cancel_task(P, task_id) ==
    IF task_id \notin 1 .. Len(P.tasks) THEN [ok |-> FALSE, P |-> P]
    ELSE IF P.tasks[task_id].status \notin {PENDING, ASSIGNED}
    THEN [ok |-> FALSE, P |-> P]
    ELSE
      LET wid == P.tasks[task_id].assigned_worker_id
          P1 == [P EXCEPT !.tasks[task_id].status = CANCELED]
      IN  [ok |-> TRUE,
           P |-> IF wid # NoWorker /\ wid \in DOMAIN P.workers
                 THEN [P1 EXCEPT !.workers[wid].current_task_id = NoTask,
                                 !.workers[wid].status = IDLE]
                 ELSE P1]

\* TaskQueue.get_idle_workers, in key order
RECURSIVE idle_in_order(_, _)
idle_in_order(P, s) ==
    IF s = <<>> THEN <<>>
    ELSE IF P.workers[Head(s)].status = IDLE
         THEN <<Head(s)>> \o idle_in_order(P, Tail(s))
         ELSE idle_in_order(P, Tail(s))

\* get_idle_workers taking every worker that is IDLE or BUSY
RECURSIVE idle_or_busy_in_order(_, _)
idle_or_busy_in_order(P, s) ==
    IF s = <<>> THEN <<>>
    ELSE IF P.workers[Head(s)].status \in {IDLE, BUSY}
         THEN <<Head(s)>> \o idle_or_busy_in_order(P, Tail(s))
         ELSE idle_or_busy_in_order(P, Tail(s))

get_idle_workers_or_busy(P) == idle_or_busy_in_order(P, P.order)

get_idle_workers(P) == idle_in_order(P, P.order)

\* -------------------------------------------------------- worker_pool.py
\* kill_tree(pid) on the process recorded for worker wid
kill_tree(P, wid) == [P EXCEPT !.running = @ \ {wid}]

\* is_process_running(worker.process_id)
is_process_running(P, wid) == wid \in P.running

\* self._spawn_times.get(worker_id, 0) turned into age_since_spawn;
\* a missing entry is float("inf")
age_since_spawn(P, wid) ==
    IF wid \in DOMAIN P.spawn_times THEN P.spawn_times[wid] ELSE AgeCap

DropKey(f, k) == [x \in DOMAIN f \ {k} |-> f[x]]

\* spawn_worker with the optimistic start of its docstring: the worker is
\* recorded IDLE as soon as the process is launched
spawn_worker_optimistic(P, worker_id, outcome) ==
    LET fresh == worker_id = NoWorker
        wid == IF fresh THEN P.worker_index ELSE worker_id
        P0 == IF fresh THEN [P EXCEPT !.worker_index = @ + 1] ELSE P
        P1 == register_worker(P0, wid, NewWorker)
    IN  CASE outcome = "no_cmd" -> [ok |-> FALSE, P |-> P1]
          [] outcome = "popen_fail" ->
                [ok |-> FALSE, P |-> [P1 EXCEPT !.workers[wid].status = DEAD]]
          [] OTHER ->
                [ok |-> TRUE,
                 P |-> [P1 EXCEPT !.workers[wid].process_id = HasPid,
                                  !.workers[wid].status = IDLE,
                                  !.processes = @ \cup {wid},
                                  !.spawn_times = (wid :> 0) @@ @,
                                  !.running = @ \cup {wid}]]

\* UEWorkerPool.spawn_worker; worker_id = NoWorker asks for a generated id.
\* outcome "no_cmd": build_worker_command raises before the try block;
\* outcome "popen_fail": Popen raises inside it.  [ok, P]
spawn_worker(P, worker_id, outcome) ==
    LET fresh == worker_id = NoWorker
        wid == IF fresh THEN P.worker_index ELSE worker_id
        P0 == IF fresh THEN [P EXCEPT !.worker_index = @ + 1] ELSE P
        P1 == register_worker(P0, wid, NewWorker)
    IN  CASE outcome = "no_cmd" -> [ok |-> FALSE, P |-> P1]
          [] outcome = "popen_fail" ->
                [ok |-> FALSE, P |-> [P1 EXCEPT !.workers[wid].status = DEAD]]
          [] OTHER ->
                [ok |-> TRUE,
                 P |-> [P1 EXCEPT !.workers[wid].process_id = HasPid,
                                  !.workers[wid].status = STARTING,
                                  !.processes = @ \cup {wid},
                                  !.spawn_times = (wid :> 0) @@ @,
                                  !.running = @ \cup {wid}]]

\* UEWorkerPool._cleanup_orphan_processes: kill_tree on every process
\* whose command line carries the worker-mode flag and this pool's URL
cleanup_orphan_processes(n) == 0

\* kill_worker that leaves the killed worker in the tracking tables
kill_worker_keep_tracking(P, worker_id) ==
    IF worker_id \notin DOMAIN P.workers THEN [ok |-> FALSE, P |-> P]
    ELSE
      LET P1 == IF P.workers[worker_id].process_id # NoPid
                THEN kill_tree(P, worker_id) ELSE P
      IN  [ok |-> TRUE,
           P |-> [P1 EXCEPT !.workers[worker_id].status = DEAD]]

\* UEWorkerPool.kill_worker: [ok, P]
kill_worker(P, worker_id) ==
    IF worker_id \notin DOMAIN P.workers THEN [ok |-> FALSE, P |-> P]
    ELSE
      LET P1 == IF P.workers[worker_id].process_id # NoPid
                THEN kill_tree(P, worker_id) ELSE P
      IN  [ok |-> TRUE,
           P |-> [P1 EXCEPT !.workers[worker_id].status = DEAD,
                            !.processes = @ \ {worker_id},
                            !.spawn_times = DropKey(@, worker_id)]]

\* the scan step without the startup grace period of the heartbeat test
reconcile_worker_no_grace(P, wid) ==
    LET w == P.workers[wid]
        pid == w.process_id
        age == age_since_spawn(P, wid)
        killed == IF pid # NoPid THEN kill_tree(P, wid) ELSE P
    IN  IF pid # NoPid /\ ~is_process_running(P, wid)
        THEN [dead |-> TRUE,
              P |-> [P EXCEPT !.workers[wid].process_id = NoPid,
                              !.workers[wid].status = DEAD,
                              !.workers[wid].current_task_id = NoTask]]
        ELSE IF /\ w.status \in {IDLE, BUSY}
                /\ w.last_heartbeat > WORKER_HEARTBEAT_TIMEOUT_SEC
        THEN [dead |-> TRUE,
              P |-> [killed EXCEPT !.workers[wid].process_id = NoPid,
                                   !.workers[wid].status = DEAD,
                                   !.workers[wid].current_task_id = NoTask]]
        ELSE IF w.status = STARTING /\ age > WORKER_STARTUP_TIMEOUT_SEC
        THEN [dead |-> TRUE,
              P |-> [killed EXCEPT !.workers[wid].process_id = NoPid,
                                   !.workers[wid].status = DEAD]]
        ELSE IF w.process_id = NoPid /\ w.status # DEAD
        THEN [dead |-> TRUE, P |-> [P EXCEPT !.workers[wid].status = DEAD]]
        ELSE [dead |-> FALSE, P |-> P]

\* one iteration of the first loop of _reconcile: [P, dead]
reconcile_worker(P, wid) ==
    LET w == P.workers[wid]
        pid == w.process_id
        age == age_since_spawn(P, wid)
        killed == IF pid # NoPid THEN kill_tree(P, wid) ELSE P
    IN  IF pid # NoPid /\ ~is_process_running(P, wid)
        THEN [dead |-> TRUE,
              P |-> [P EXCEPT !.workers[wid].process_id = NoPid,
                              !.workers[wid].status = DEAD,
                              !.workers[wid].current_task_id = NoTask]]
        ELSE IF /\ w.status \in {IDLE, BUSY}
                /\ age >= WORKER_STARTUP_GRACE_SEC
                /\ w.last_heartbeat > WORKER_HEARTBEAT_TIMEOUT_SEC
        THEN [dead |-> TRUE,
              P |-> [killed EXCEPT !.workers[wid].process_id = NoPid,
                                   !.workers[wid].status = DEAD,
                                   !.workers[wid].current_task_id = NoTask]]
        ELSE IF w.status = STARTING /\ age > WORKER_STARTUP_TIMEOUT_SEC
        THEN [dead |-> TRUE,
              P |-> [killed EXCEPT !.workers[wid].process_id = NoPid,
                                   !.workers[wid].status = DEAD]]
        ELSE IF w.process_id = NoPid /\ w.status # DEAD
        THEN [dead |-> TRUE, P |-> [P EXCEPT !.workers[wid].status = DEAD]]
        ELSE [dead |-> FALSE, P |-> P]

\* first loop of _reconcile over list(_workers.items()): [P, dead_ids]
RECURSIVE reconcile_scan(_, _, _)
reconcile_scan(P, s, dead_ids) ==
    IF s = <<>> THEN [P |-> P, dead_ids |-> dead_ids]
    ELSE LET r == reconcile_worker(P, Head(s))
         IN  reconcile_scan(r.P, Tail(s),
                 IF r.dead THEN Append(dead_ids, Head(s)) ELSE dead_ids)

\* re-queue that leaves the dead worker's id on the task
requeue_one_keep_worker(P, wid) ==
    LET tid == P.workers[wid].current_task_id
        P1 == IF /\ tid # NoTask
                 /\ tid \in 1 .. Len(P.tasks)
                 /\ P.tasks[tid].status \in {ASSIGNED, RUNNING}
              THEN [P EXCEPT !.tasks[tid].status = PENDING]
              ELSE P
    IN  [P1 EXCEPT !.processes = @ \ {wid},
                   !.spawn_times = DropKey(@, wid)]

\* second loop of _reconcile: re-queue, drop process tracking
requeue_one(P, wid) ==
    LET tid == P.workers[wid].current_task_id
        P1 == IF /\ tid # NoTask
                 /\ tid \in 1 .. Len(P.tasks)
                 /\ P.tasks[tid].status \in {ASSIGNED, RUNNING}
              THEN [P EXCEPT !.tasks[tid].status = PENDING,
                             !.tasks[tid].assigned_worker_id = NoWorker]
              ELSE P
    IN  [P1 EXCEPT !.processes = @ \ {wid},
                   !.spawn_times = DropKey(@, wid)]

RECURSIVE requeue_dead(_, _)
requeue_dead(P, dead_ids) ==
    IF dead_ids = <<>> THEN P
    ELSE requeue_dead(requeue_one(P, Head(dead_ids)), Tail(dead_ids))

\* live count taking every worker that is not STOPPING
live_workers_not_stopping(P) ==
    {w \in DOMAIN P.workers : P.workers[w].status # STOPPING}

\* live count that leaves out the workers still starting
live_workers_ready_only(P) ==
    {w \in DOMAIN P.workers : P.workers[w].status \in {IDLE, BUSY}}

live_workers(P) ==
    {w \in DOMAIN P.workers : P.workers[w].status \in {IDLE, BUSY, STARTING}}

\* "for worker_id in dead_ids[:missing]": k counts the spawn calls so far
RECURSIVE respawn_ids(_, _, _, _, _)
respawn_ids(P, ids, missing, k, outs) ==
    IF ids = <<>> THEN [P |-> P, missing |-> missing, k |-> k]
    ELSE LET r == spawn_worker(P, Head(ids), outs[k + 1])
         IN  respawn_ids(r.P, Tail(ids),
                         IF r.ok THEN missing - 1 ELSE missing, k + 1, outs)

\* "while missing > 0: spawn_worker()", break on the first failure;
\* also the scale-up loop of scale_workers
RECURSIVE spawn_new(_, _, _, _)
spawn_new(P, n, k, outs) ==
    IF n <= 0 THEN P
    ELSE LET r == spawn_worker(P, NoWorker, outs[k + 1])
         IN  IF r.ok THEN spawn_new(r.P, n - 1, k + 1, outs) ELSE r.P

\* UEWorkerPool._reconcile
reconcile(P, minw, outs) ==
    LET scan == reconcile_scan(P, P.order, <<>>)
        dead_ids == scan.dead_ids
        P1 == requeue_dead(scan.P, dead_ids)
        missing == minw - Cardinality(live_workers(P1))
        r == respawn_ids(P1, PySlicePrefix(dead_ids, missing), missing, 0, outs)
    IN  spawn_new(r.P, r.missing, r.k, outs)

\* dead_ids of the tick that starts in P
reconcile_dead_ids(P) == reconcile_scan(P, P.order, <<>>).dead_ids

RECURSIVE kill_all(_, _)
kill_all(P, ids) ==
    IF ids = <<>> THEN P
    ELSE kill_all(kill_worker(P, Head(ids)).P, Tail(ids))

\* scale_workers using the requested target as it comes
scale_workers_unclamped(P, target, minw, maxw, outs) ==
    LET target_count == target
        current_count == Cardinality({w \in DOMAIN P.workers :
                             P.workers[w].status \notin {DEAD, STOPPING}})
    IN  IF current_count < target_count
        THEN spawn_new(P, target_count - current_count, 0, outs)
        ELSE IF current_count > target_count
        THEN kill_all(P, PySlicePrefix(get_idle_workers(P),
                                       current_count - target_count))
        ELSE P

\* UEWorkerPool.scale_workers
scale_workers(P, target, minw, maxw, outs) ==
    LET target_count == Max(minw, Min(target, maxw))
        current_count == Cardinality({w \in DOMAIN P.workers :
                             P.workers[w].status \notin {DEAD, STOPPING}})
    IN  IF current_count < target_count
        THEN spawn_new(P, target_count - current_count, 0, outs)
        ELSE IF current_count > target_count
        THEN kill_all(P, PySlicePrefix(get_idle_workers(P),
                                       current_count - target_count))
        ELSE P

\* try_lease_task without the "only IDLE workers" test
try_lease_task_any_status(P, worker_id) ==
    IF worker_id \notin DOMAIN P.workers THEN [task |-> NoTask, P |-> P]
    ELSE
      LET P1 == [P EXCEPT !.workers[worker_id] = update_heartbeat(@)]
          tid == get_pending_task(P1.tasks)
          a == assign_task_to_worker(P1, tid, worker_id)
      IN  IF tid = NoTask THEN [task |-> NoTask, P |-> P1]
          ELSE IF a.ok THEN [task |-> tid, P |-> a.P]
          ELSE [task |-> NoTask, P |-> P1]

\* UEWorkerPool.try_lease_task: [task, P]
try_lease_task(P, worker_id) ==
    IF worker_id \notin DOMAIN P.workers THEN [task |-> NoTask, P |-> P]
    ELSE
      LET P1 == [P EXCEPT !.workers[worker_id] = update_heartbeat(@)]
          tid == get_pending_task(P1.tasks)
          a == assign_task_to_worker(P1, tid, worker_id)
      IN  IF P1.workers[worker_id].status # IDLE THEN [task |-> NoTask, P |-> P1]
          ELSE IF tid = NoTask THEN [task |-> NoTask, P |-> P1]
          ELSE IF a.ok THEN [task |-> tid, P |-> a.P]
          ELSE [task |-> NoTask, P |-> P1]

\* UEWorkerPool.update_worker_heartbeat; busy is HeartbeatRequest.status,
\* tested with Python truthiness: [ok, P]
update_worker_heartbeat(P, worker_id, busy) ==
    IF worker_id \notin DOMAIN P.workers THEN [ok |-> FALSE, P |-> P]
    ELSE
      LET P1 == [P EXCEPT !.workers[worker_id] = update_heartbeat(@)]
          st == P1.workers[worker_id].status
          truthy == busy # ""
      IN  [ok |-> TRUE,
           P |-> IF busy # NoStatus /\ st \in {IDLE, BUSY}
                 THEN IF truthy /\ st = IDLE
                      THEN [P1 EXCEPT !.workers[worker_id].status = BUSY]
                      ELSE IF ~truthy /\ st = BUSY
                      THEN [P1 EXCEPT !.workers[worker_id].status = IDLE,
                                      !.workers[worker_id].current_task_id = NoTask]
                      ELSE P1
                 ELSE P1]

\* mark_worker_ready making a registered worker IDLE whatever its status
mark_worker_ready_any_status(P, worker_id) ==
    IF worker_id \notin DOMAIN P.workers
    THEN [ok |-> TRUE,
          P |-> register_worker(P, worker_id, [NewWorker EXCEPT !.status = IDLE])]
    ELSE [ok |-> TRUE,
          P |-> [P EXCEPT !.workers[worker_id] =
                              update_heartbeat([@ EXCEPT !.status = IDLE])]]

\* UEWorkerPool.mark_worker_ready: [ok, P]
mark_worker_ready(P, worker_id) ==
    IF worker_id \notin DOMAIN P.workers
    THEN [ok |-> TRUE,
          P |-> register_worker(P, worker_id, [NewWorker EXCEPT !.status = IDLE])]
    ELSE IF P.workers[worker_id].status = STARTING
    THEN [ok |-> TRUE,
          P |-> [P EXCEPT !.workers[worker_id] =
                              update_heartbeat([@ EXCEPT !.status = IDLE])]]
    ELSE IF P.workers[worker_id].status = IDLE
    THEN [ok |-> TRUE,
          P |-> [P EXCEPT !.workers[worker_id] = update_heartbeat(@)]]
    ELSE [ok |-> FALSE, P |-> P]

\* complete_task without the check of the task's assigned worker
complete_task_any_worker(P, worker_id, task_id, success, video_directory, error_message) ==
    IF worker_id \notin DOMAIN P.workers THEN [ok |-> FALSE, P |-> P]
    ELSE IF task_id \notin 1 .. Len(P.tasks) THEN [ok |-> FALSE, P |-> P]
    ELSE queue_complete_task(P, task_id, success, video_directory,
                             error_message)

\* UEWorkerPool.complete_task: [ok, P]
complete_task(P, worker_id, task_id, success, video_directory, error_message) ==
    IF worker_id \notin DOMAIN P.workers THEN [ok |-> FALSE, P |-> P]
    ELSE IF \/ task_id \notin 1 .. Len(P.tasks)
            \/ P.tasks[task_id].assigned_worker_id # worker_id
    THEN [ok |-> FALSE, P |-> P]
    ELSE queue_complete_task(P, task_id, success, video_directory,
                             error_message)

\* UEWorkerPool.cancel_task
cancel_task(P, task_id) == queue_cancel_task(P, task_id)

\* ------------------------------------------------------------- actions
SpawnOutcomeSeqs == [1 .. MaxSpawnsPerCall -> SpawnOutcomes]

\* write a pool record back to the variables
SetPool(P) ==
    /\ workers' = P.workers
    /\ order' = P.order
    /\ processes' = P.processes
    /\ spawn_times' = P.spawn_times
    /\ worker_index' = P.worker_index
    /\ running' = P.running
    /\ tasks' = P.tasks

\* the pool after construction, for a configuration, a counting depth and
\* a number of orphan processes on the host
PoolState(minw, maxw, cap, orph) ==
    /\ phase = "constructed"
    /\ min_workers = minw
    /\ max_workers = maxw
    /\ tasks = <<>>
    /\ workers = <<>>
    /\ order = <<>>
    /\ processes = {}
    /\ spawn_times = <<>>
    /\ worker_index = 0
    /\ running = {}
    /\ utcnow = 0
    /\ stat_cap = cap
    /\ orphans = orph

\* the log file before UE created it, and _run at "position = 0"
TailerState ==
    /\ uelog = [exists |-> FALSE, content |-> <<>>, owed |-> <<>>,
                appends |-> 0, truncations |-> 0]
    /\ tailer = [pc |-> "closed", position |-> 0, delivered |-> <<>>]

\* no one-shot runner has been started
RunnerNotStarted ==
    /\ rpc = "none"
    /\ renv = <<>>
    /\ task_index = NoIndex
    /\ exit_code = NoExit
    /\ ue = <<>>
    /\ reporter = <<>>
    /\ readers = <<>>
    /\ pushes = <<>>
    /\ rnow = 0
    /\ TailerState

InitPool(minw, maxw, cap, orph) ==
    PoolState(minw, maxw, cap, orph) /\ RunnerNotStarted

\* ... on a host without orphan processes
InitWith(minw, maxw, cap) == InitPool(minw, maxw, cap, 0)

Init == InitWith(MaxMinWorkers, MaxMaxWorkers, 0)

\* UEWorkerPool.start, first statement: _cleanup_orphan_processes
Sweep ==
    /\ phase = "constructed"
    /\ orphans' = cleanup_orphan_processes(orphans)
    /\ phase' = "swept"
    /\ UNCHANGED <<min_workers, max_workers, stat_cap, runnervars, tasks, poolvars,
                   utcnow>>

\* UEWorkerPool.start, the rest: scale_workers(min_workers), then the
\* monitor task is created and start() returns; the task's first _reconcile
\* runs in the next iteration of the event loop, before the server accepts a
\* request: phase is "started" until that first tick and "serving" from
\* then on.
Start ==
    /\ phase = "swept"
    /\ \E outs \in SpawnOutcomeSeqs :
         LET P == scale_workers(Pool, min_workers, min_workers, max_workers, outs)
         IN  /\ P.worker_index <= MaxWorkerIndex
             /\ SetPool(P)
    /\ phase' = "started"
    /\ UNCHANGED <<min_workers, max_workers, stat_cap, orphans, runnervars, utcnow>>

\* POST /tasks
CreateTask ==
    /\ phase = "serving"
    /\ Len(tasks) < MaxTasks
    /\ tasks' = Append(tasks, NewTask(utcnow))
    /\ UNCHANGED <<phase, min_workers, max_workers, stat_cap, orphans, runnervars, poolvars, utcnow>>

\* POST /workers/{id}/ready
Ready(w) ==
    /\ phase = "serving"
    /\ SetPool(mark_worker_ready(Pool, w).P)
    /\ UNCHANGED <<phase, min_workers, max_workers, stat_cap, orphans, runnervars, utcnow>>

\* GET /workers/{id}/lease
Lease(w) ==
    /\ phase = "serving"
    /\ SetPool(try_lease_task(Pool, w).P)
    /\ UNCHANGED <<phase, min_workers, max_workers, stat_cap, orphans, runnervars, utcnow>>

\* POST /workers/{id}/heartbeat
Heartbeat(w, st) ==
    /\ phase = "serving"
    /\ SetPool(update_worker_heartbeat(Pool, w, st).P)
    /\ UNCHANGED <<phase, min_workers, max_workers, stat_cap, orphans, runnervars, utcnow>>

\* POST /workers/{id}/done
Done(w, t, success, video_directory, error_message) ==
    /\ phase = "serving"
    /\ SetPool(complete_task(Pool, w, t, success, video_directory,
                             error_message).P)
    /\ UNCHANGED <<phase, min_workers, max_workers, stat_cap, orphans, runnervars, utcnow>>

\* POST /tasks/{id}/cancel
Cancel(t) ==
    /\ phase = "serving"
    /\ SetPool(cancel_task(Pool, t).P)
    /\ UNCHANGED <<phase, min_workers, max_workers, stat_cap, orphans, runnervars, utcnow>>

\* DELETE /workers/{id}
KillWorker(w) ==
    /\ phase = "serving"
    /\ SetPool(kill_worker(Pool, w).P)
    /\ UNCHANGED <<phase, min_workers, max_workers, stat_cap, orphans, runnervars, utcnow>>

\* POST /workers/scale?target=N
Scale(target) ==
    /\ phase = "serving"
    /\ \E outs \in SpawnOutcomeSeqs :
         LET P == scale_workers(Pool, target, min_workers, max_workers, outs)
         IN  /\ P.worker_index <= MaxWorkerIndex
             /\ SetPool(P)
    /\ UNCHANGED <<phase, min_workers, max_workers, stat_cap, orphans, runnervars, utcnow>>

\* one iteration of _monitor_workers
Reconcile ==
    /\ phase \in {"started", "serving"}
    /\ \E outs \in SpawnOutcomeSeqs :
         LET P == reconcile(Pool, min_workers, outs)
         IN  /\ P.worker_index <= MaxWorkerIndex
             /\ SetPool(P)
    /\ phase' = "serving"
    /\ UNCHANGED <<min_workers, max_workers, stat_cap, orphans, runnervars, utcnow>>

\* UEWorkerPool.shutdown (lifespan shutdown)
RECURSIVE KillEach(_, _)
KillEach(P, ids) ==
    IF ids = {} THEN P
    ELSE LET w == CHOOSE x \in ids : TRUE
         IN  KillEach(kill_worker(P, w).P, ids \ {w})

Shutdown ==
    /\ phase \in {"started", "serving"}
    /\ SetPool(KillEach(Pool, processes))
    /\ phase' = "stopped"
    /\ UNCHANGED <<min_workers, max_workers, stat_cap, orphans, runnervars, utcnow>>

\* environment: the UE process recorded for w exits or crashes
ProcessDies(w) ==
    /\ w \in running
    /\ running' = running \ {w}
    /\ UNCHANGED <<phase, min_workers, max_workers, stat_cap, orphans, runnervars, tasks, workers, order,
                   processes, spawn_times, worker_index, utcnow>>

\* environment: TimeStep seconds pass
Advance ==
    /\ phase \in {"started", "serving"}
    /\ workers' = [w \in DOMAIN workers |->
                     [workers[w] EXCEPT !.last_heartbeat = AddHb(@, TimeStep)]]
    /\ spawn_times' = [w \in DOMAIN spawn_times |->
                         AddAge(spawn_times[w], TimeStep)]
    /\ utcnow' = IF \E i \in 1 .. Len(tasks) : tasks[i].created_at = utcnow
                 THEN utcnow + 1 ELSE utcnow
    /\ UNCHANGED <<phase, min_workers, max_workers, stat_cap, orphans, runnervars, tasks, order, processes,
                   worker_index, running>>

Next ==
    \/ Sweep
    \/ Start
    \/ CreateTask
    \/ \E w \in WorkerIds : Ready(w)
    \/ \E w \in WorkerIds : Lease(w)
    \/ \E w \in WorkerIds, st \in HeartbeatStatuses : Heartbeat(w, st)
    \/ \E w \in WorkerIds, t \in 1 .. MaxTasks, ok \in BOOLEAN :
         Done(w, t, ok, NoString, NoString)
    \/ \E t \in 1 .. MaxTasks : Cancel(t)
    \/ \E w \in WorkerIds : KillWorker(w)
    \/ \E n \in 0 .. MaxScaleTarget : Scale(n)
    \/ Reconcile
    \/ Shutdown
    \/ \E w \in WorkerIds : ProcessDies(w)
    \/ Advance

Spec == Init /\ [][Next]_vars

\* the start of the daemon and the first requests, for every min_workers
\* up to MaxMinWorkers and with or without orphan processes on the host
StartInit ==
    \E minw \in 0 .. MaxMinWorkers, orph \in 0 .. MaxOrphans :
        InitPool(minw, MaxMaxWorkers, 0, orph)

StartNext ==
    \/ Sweep
    \/ Start
    \/ Reconcile
    \/ CreateTask
    \/ \E w \in WorkerIds : Ready(w)
    \/ \E w \in WorkerIds : Lease(w)
    \/ \E w \in WorkerIds : ProcessDies(w)
    \/ Shutdown
    \/ Advance

StartSpec == StartInit /\ [][StartNext]_vars

\* the same service configured with max_workers = 1
Max1Spec == InitWith(MaxMinWorkers, 1, 0) /\ [][Next]_vars

TypeOK ==
    /\ phase \in {"constructed", "swept", "started", "serving", "stopped"}
    /\ \A i \in 1 .. Len(tasks) : tasks[i].status \in TaskStatus
    /\ \A w \in DOMAIN workers : workers[w].status \in WorkerStatus
    /\ DOMAIN workers \subseteq WorkerIds

\* ---------------------------------------------------------- HTTP responses
\* status code of GET /workers/{id}/lease in the current state
LeaseResponse(w) ==
    IF try_lease_task(Pool, w).task = NoTask THEN 204 ELSE 200

\* status code of POST /workers/{id}/done
DoneResponse(w, t, ok, vd, em) ==
    IF complete_task(Pool, w, t, ok, vd, em).ok THEN 200 ELSE 400

\* status code of POST /tasks/{id}/cancel
CancelResponse(t) ==
    IF cancel_task(Pool, t).ok THEN 200 ELSE 400

\* ------------------------------------------------ well-behaved environment
\* The environment of the progress claim: spawns succeed, a UE process calls
\* ready once it is up, polls lease while the pool has it IDLE, reports done
\* for the task the pool has bound to it, and may die while holding a task.
AllOk == [i \in 1 .. MaxSpawnsPerCall |-> "ok"]

StartOk ==
    /\ phase = "swept"
    /\ SetPool(scale_workers(Pool, min_workers, min_workers, max_workers, AllOk))
    /\ phase' = "started"
    /\ UNCHANGED <<min_workers, max_workers, stat_cap, orphans, runnervars, utcnow>>

ReconcileOk ==
    /\ phase \in {"started", "serving"}
    /\ LET P == reconcile(Pool, min_workers, AllOk)
       IN  /\ P.worker_index <= MaxWorkerIndex
           /\ SetPool(P)
    /\ phase' = "serving"
    /\ UNCHANGED <<min_workers, max_workers, stat_cap, orphans, runnervars, utcnow>>

WorkerReady(w) ==
    /\ w \in running
    /\ w \in DOMAIN workers
    /\ workers[w].status = STARTING
    /\ Ready(w)

WorkerLease(w) ==
    /\ w \in running
    /\ w \in DOMAIN workers
    /\ workers[w].status = IDLE
    /\ Lease(w)

WorkerDone(w) ==
    /\ w \in running
    /\ w \in DOMAIN workers
    /\ workers[w].current_task_id # NoTask
    /\ \E ok \in BOOLEAN :
         Done(w, workers[w].current_task_id, ok, NoString, NoString)

HolderDies(w) ==
    /\ w \in DOMAIN workers
    /\ workers[w].current_task_id # NoTask
    /\ ProcessDies(w)

\* POST /workers/scale?target=N, every spawn succeeding
ScaleOk(target) ==
    /\ phase = "serving"
    /\ LET P == scale_workers(Pool, target, min_workers, max_workers, AllOk)
       IN  /\ P.worker_index <= MaxWorkerIndex
           /\ SetPool(P)
    /\ UNCHANGED <<phase, min_workers, max_workers, stat_cap, orphans, runnervars, utcnow>>

\* every request and environment step, with every spawn succeeding
OkNext ==
    \/ Sweep
    \/ StartOk
    \/ CreateTask
    \/ \E w \in WorkerIds : Ready(w)
    \/ \E w \in WorkerIds : Lease(w)
    \/ \E w \in WorkerIds, st \in HeartbeatStatuses : Heartbeat(w, st)
    \/ \E w \in WorkerIds, t \in 1 .. MaxTasks, ok \in BOOLEAN :
         Done(w, t, ok, NoString, NoString)
    \/ \E t \in 1 .. MaxTasks : Cancel(t)
    \/ \E w \in WorkerIds : KillWorker(w)
    \/ \E n \in 0 .. MaxScaleTarget : ScaleOk(n)
    \/ ReconcileOk
    \/ Shutdown
    \/ \E w \in WorkerIds : ProcessDies(w)
    \/ Advance

OkSpec == Init /\ [][OkNext]_vars

\* the requests around done, with the result fields of the done request
\* drawn from their sets and the workers' counters counted up to StatCap
StatsNext ==
    \/ Sweep
    \/ StartOk
    \/ CreateTask
    \/ ReconcileOk
    \/ \E w \in WorkerIds : Ready(w)
    \/ \E w \in WorkerIds : Lease(w)
    \/ \E w \in WorkerIds, t \in 1 .. MaxTasks, ok \in BOOLEAN,
          vd \in VideoDirs, em \in ErrorMessages : Done(w, t, ok, vd, em)
    \/ \E t \in 1 .. MaxTasks : Cancel(t)
    \/ \E w \in WorkerIds : KillWorker(w)
    \/ \E w \in WorkerIds : ProcessDies(w)

StatsSpec ==
    InitWith(MaxMinWorkers, MaxMaxWorkers, StatCap) /\ [][StatsNext]_vars

FairNext ==
    \/ Sweep
    \/ StartOk
    \/ CreateTask
    \/ ReconcileOk
    \/ \E w \in GeneratedIds : WorkerReady(w)
    \/ \E w \in GeneratedIds : WorkerLease(w)
    \/ \E w \in GeneratedIds : WorkerDone(w)
    \/ \E w \in GeneratedIds : HolderDies(w)
    \/ Advance

FairSpec ==
    /\ Init
    /\ [][FairNext]_vars
    /\ WF_vars(Sweep)
    /\ WF_vars(StartOk)
    /\ WF_vars(ReconcileOk)
    /\ \A w \in GeneratedIds : WF_vars(WorkerReady(w))
    /\ \A w \in GeneratedIds : SF_vars(WorkerLease(w))
    /\ \A w \in GeneratedIds : SF_vars(WorkerDone(w))

\* ------------------------------------------------------------------ claims
Bound(t) == tasks[t].status \in {ASSIGNED, RUNNING}

\* C1: every task in ASSIGNED or RUNNING has a non-null assigned_worker_id,
\* and the worker with that id has current_task_id equal to the task's id.
C1_AssignedTaskBoundToWorker ==
    \A t \in TaskIds :
        Bound(t) =>
            /\ tasks[t].assigned_worker_id # NoWorker
            /\ tasks[t].assigned_worker_id \in DOMAIN workers
            /\ workers[tasks[t].assigned_worker_id].current_task_id = t

\* C2: when a reconcile tick finds dead a worker bound to a task in ASSIGNED
\* or RUNNING, the task is PENDING with a null assigned_worker_id at the end
\* of that tick.
C2_DeadWorkerTaskRequeued ==
    [][Reconcile =>
        \A w \in DOMAIN workers :
            LET t == workers[w].current_task_id
            IN  (/\ SeqContains(reconcile_dead_ids(Pool), w)
                 /\ t # NoTask
                 /\ Bound(t)
                 /\ tasks[t].assigned_worker_id = w)
                => /\ tasks'[t].status = PENDING
                   /\ tasks'[t].assigned_worker_id = NoWorker]_vars

\* C3: under fairness, every task that is created (and never canceled)
\* eventually reaches COMPLETED or FAILED, even when workers holding it die.
C3_EveryTaskFinishes ==
    \A t \in 1 .. MaxTasks :
        (Len(tasks) >= t) ~>
            (Len(tasks) >= t /\ tasks[t].status \in {COMPLETED, FAILED})

\* C4: once a task is COMPLETED, FAILED or CANCELED its status never
\* changes again.
C4_TerminalStatusIsFinal ==
    [][\A t \in TaskIds :
          tasks[t].status \in TerminalStatus
              => tasks'[t].status = tasks[t].status]_vars

\* C5: for every worker id, at most one task in ASSIGNED or RUNNING has
\* assigned_worker_id equal to that id.
C5_OneTaskPerWorker ==
    \A w \in WorkerIds :
        Cardinality({t \in TaskIds :
                        Bound(t) /\ tasks[t].assigned_worker_id = w}) <= 1

\* C6: every BUSY worker has a non-null current_task_id, and the task it
\* names is ASSIGNED or RUNNING with assigned_worker_id equal to the
\* worker's id.
C6_BusyWorkerHasTask ==
    \A w \in DOMAIN workers :
        workers[w].status = BUSY =>
            LET t == workers[w].current_task_id
            IN  /\ t # NoTask
                /\ t \in TaskIds
                /\ tasks[t].assigned_worker_id = w
                /\ Bound(t)

\* C7: every worker in STARTING, IDLE, STOPPING or DEAD has a null
\* current_task_id.
C7_NonBusyWorkerHasNoTask ==
    \A w \in DOMAIN workers :
        workers[w].status \in {STARTING, IDLE, STOPPING, DEAD}
            => workers[w].current_task_id = NoTask

\* the task a lease call by w hands out in the current state
LeaseReturn(w) == try_lease_task(Pool, w).task

\* C8: a lease hands out only a task that is PENDING, and the task leaves
\* PENDING in that same step, bound to the caller alone; so a task is never
\* returned by two lease calls unless it was put back to PENDING in between.
C8_PendingTaskLeasedOnce ==
    [][\A w \in WorkerIds :
          (Lease(w) /\ LeaseReturn(w) # NoTask) =>
              LET t == LeaseReturn(w)
              IN  /\ tasks[t].status = PENDING
                  /\ tasks'[t].status = ASSIGNED
                  /\ tasks'[t].assigned_worker_id = w
                  /\ \A v \in WorkerIds \ {w} : LeaseReturn(v)' # t]_vars

\* C8 witness: a task is leased to one worker while another registered
\* worker is IDLE and has just polled.
C8_Witness ==
    \E t \in TaskIds, w \in DOMAIN workers, v \in DOMAIN workers :
        /\ v # w
        /\ tasks[t].status = ASSIGNED
        /\ tasks[t].assigned_worker_id = w
        /\ workers[w].current_task_id = t
        /\ workers[v].status = IDLE
        /\ workers[v].last_heartbeat = 0

\* C9: a lease call by a registered worker W returns a task iff W is IDLE
\* and some task is PENDING; then the returned task becomes ASSIGNED to W
\* and W becomes BUSY with current_task_id set to it, in that step;
\* otherwise no task changes and only W's heartbeat is refreshed.
C9_LeaseContract ==
    [][\A w \in WorkerIds :
          (w \in DOMAIN workers /\ Lease(w)) =>
              LET t == LeaseReturn(w)
                  grant == /\ workers[w].status = IDLE
                           /\ \E p \in TaskIds : tasks[p].status = PENDING
              IN  /\ (t # NoTask) <=> grant
                  /\ grant =>
                       /\ tasks[t].status = PENDING
                       /\ tasks' = [tasks EXCEPT
                                      ![t].status = ASSIGNED,
                                      ![t].assigned_worker_id = w]
                       /\ workers' = [workers EXCEPT
                                        ![w].status = BUSY,
                                        ![w].current_task_id = t,
                                        ![w].last_heartbeat = 0]
                  /\ ~grant =>
                       /\ tasks' = tasks
                       /\ workers' = [workers EXCEPT
                                        ![w].last_heartbeat = 0]]_vars

\* C9 witness: a worker is BUSY with a leased task while a STARTING worker
\* that has polled (fresh heartbeat) holds none and a task is still PENDING.
C9_Witness ==
    /\ \E t \in TaskIds, w \in DOMAIN workers :
          /\ tasks[t].status = ASSIGNED
          /\ tasks[t].assigned_worker_id = w
          /\ workers[w].status = BUSY
          /\ workers[w].current_task_id = t
    /\ \E v \in DOMAIN workers :
          /\ workers[v].status = STARTING
          /\ workers[v].current_task_id = NoTask
    /\ \E p \in TaskIds : tasks[p].status = PENDING

\* C10: leasing is FIFO by creation time: a PENDING task is not leased
\* while a task with an older created_at is PENDING, and no operation
\* (a re-queue included) changes a task's created_at.
C10_LeaseIsFifo ==
    [][/\ \A a, b \in TaskIds :
            (/\ tasks[a].status = PENDING
             /\ tasks[b].status = PENDING
             /\ \/ tasks[a].created_at < tasks[b].created_at
                \/ tasks[a].created_at = tasks[b].created_at /\ a < b)
            => tasks'[b].status # ASSIGNED
       /\ \A t \in TaskIds : tasks'[t].created_at = tasks[t].created_at]_vars

\* C10 witness: the older of two tasks is leased while the newer one, with a
\* later created_at, is still PENDING.
C10_Witness ==
    \E a, b \in TaskIds :
        /\ tasks[a].created_at < tasks[b].created_at
        /\ tasks[a].status = ASSIGNED
        /\ tasks[b].status = PENDING

\* C11: a task in COMPLETED, FAILED or CANCELED never goes back to PENDING
\* or ASSIGNED (nor to RUNNING): every step leaves it in a terminal status;
\* and no lease call hands out a task that is in a terminal status.
C11_TerminalNeverRequeued ==
    [][/\ \A t \in TaskIds :
             tasks[t].status \in TerminalStatus
                 => tasks'[t].status \in TerminalStatus
       /\ \A w \in WorkerIds :
             LeaseReturn(w) # NoTask
                 => tasks[LeaseReturn(w)].status \notin TerminalStatus]_vars

\* C11 witness: a task is terminal while the worker it was bound to has
\* been declared DEAD by the reconciler and a registered worker has polled.
C11_Witness ==
    \E t \in TaskIds, w \in DOMAIN workers, v \in DOMAIN workers :
        /\ tasks[t].status \in TerminalStatus
        /\ tasks[t].assigned_worker_id = w
        /\ workers[w].status = DEAD
        /\ w \notin processes
        /\ workers[v].status = IDLE
        /\ workers[v].last_heartbeat = 0

\* C12: no worker's current_task_id names a task that is PENDING.
C12_NoWorkerHoldsPendingTask ==
    \A w \in DOMAIN workers, t \in TaskIds :
        tasks[t].status = PENDING => workers[w].current_task_id # t

\* C13: a worker record in STARTING becomes IDLE or BUSY only in a step that
\* is a ready call for its id.
C13_StartingLeavesOnlyByReady ==
    [][\A w \in DOMAIN workers :
          (/\ workers[w].status = STARTING
           /\ w \in DOMAIN workers'
           /\ workers'[w].status \in {IDLE, BUSY}) => Ready(w)]_vars

\* C14: a worker record in DEAD keeps that status; the only other thing a
\* step does to it is replace it by the fresh STARTING record of a respawn.
C14_DeadIsFinal ==
    [][\A w \in DOMAIN workers :
          workers[w].status = DEAD =>
              \/ workers'[w].status = DEAD
              \/ /\ workers'[w].status = STARTING
                 /\ workers'[w].current_task_id = NoTask
                 /\ workers'[w].last_heartbeat = 0]_vars

\* workers in STARTING, IDLE or BUSY
LiveCount ==
    Cardinality({w \in DOMAIN workers :
                    workers[w].status \in {STARTING, IDLE, BUSY}})

\* C15 as stated: once the first reconcile tick has run, and with every
\* spawn succeeding, the number of workers in STARTING, IDLE or BUSY is at
\* least min_workers in every state of the running service.
C15_MinWorkersAtAllTimes ==
    phase = "serving" => LiveCount >= min_workers

\* C15 amended: with every spawn succeeding, each reconcile tick ends with at
\* least min_workers workers in STARTING, IDLE or BUSY.
C15_MinWorkersAfterTick ==
    [][ReconcileOk => LiveCount' >= min_workers]_vars

\* C15 witness: a tick has respawned a dead worker under its old id (the
\* record is STARTING again while its former task is still bound to it) and
\* the count is back at min_workers.
C15_Witness ==
    /\ phase = "serving"
    /\ min_workers > 0
    /\ LiveCount >= min_workers
    /\ \E t \in TaskIds, w \in DOMAIN workers :
          /\ Bound(t)
          /\ tasks[t].assigned_worker_id = w
          /\ workers[w].status = STARTING

\* what a done request does in the current state: [ok, P], the Done step
\* being SetPool of P
DoneReturn(w, t, ok, vd, em) == complete_task(Pool, w, t, ok, vd, em)

\* C16: a done request by W for T is accepted iff W is registered and T
\* exists with assigned_worker_id = W; an accepted done leaves T COMPLETED
\* with the request's video_directory (success) or FAILED with its
\* error_message (failure), leaves W IDLE with no current task, and adds one
\* to exactly one of W's tasks_completed / tasks_failed (counted to stat_cap).
C16_DoneContract ==
    \A w \in WorkerIds, t \in 1 .. MaxTasks, ok \in BOOLEAN,
       vd \in VideoDirs, em \in ErrorMessages :
        LET r == DoneReturn(w, t, ok, vd, em)
            bound == /\ w \in DOMAIN workers
                     /\ t \in TaskIds
                     /\ tasks[t].assigned_worker_id = w
        IN  /\ r.ok <=> bound
            /\ bound =>
                 /\ r.P.tasks[t].status = IF ok THEN COMPLETED ELSE FAILED
                 /\ ok => r.P.tasks[t].video_directory = vd
                 /\ ~ok => r.P.tasks[t].error_message = em
                 /\ r.P.workers[w].status = IDLE
                 /\ r.P.workers[w].current_task_id = NoTask
                 /\ ok =>
                      /\ r.P.workers[w].tasks_failed = workers[w].tasks_failed
                      /\ workers[w].tasks_completed < stat_cap =>
                           r.P.workers[w].tasks_completed =
                               workers[w].tasks_completed + 1
                 /\ ~ok =>
                      /\ r.P.workers[w].tasks_completed =
                             workers[w].tasks_completed
                      /\ workers[w].tasks_failed < stat_cap =>
                           r.P.workers[w].tasks_failed =
                               workers[w].tasks_failed + 1

\* C16 witness: one worker has completed one task, recorded with its video
\* directory, and failed another, recorded with its error message.
C16_Witness ==
    \E w \in DOMAIN workers, t \in TaskIds, u \in TaskIds :
        /\ workers[w].status = IDLE
        /\ workers[w].tasks_completed = 1
        /\ workers[w].tasks_failed = 1
        /\ tasks[t].status = COMPLETED
        /\ tasks[t].video_directory = "dir"
        /\ tasks[t].assigned_worker_id = w
        /\ tasks[u].status = FAILED
        /\ tasks[u].error_message = "err"
        /\ tasks[u].assigned_worker_id = w

\* C17: a cancel request for T succeeds iff T is PENDING or ASSIGNED; then T
\* becomes CANCELED and, if T was ASSIGNED, its worker becomes IDLE with no
\* current task.  In every other case (a task in another status, a second
\* cancel, an unknown id) the answer is 400 and nothing changes.
C17_CancelContract ==
    \A t \in 1 .. MaxTasks :
        LET r == cancel_task(Pool, t)
            can == t \in TaskIds /\ tasks[t].status \in {PENDING, ASSIGNED}
        IN  /\ r.ok <=> can
            /\ can =>
                 /\ CancelResponse(t) = 200
                 /\ r.P.tasks[t].status = CANCELED
                 /\ tasks[t].status = ASSIGNED =>
                      LET w == tasks[t].assigned_worker_id
                      IN  /\ w \in DOMAIN workers
                          /\ r.P.workers[w].status = IDLE
                          /\ r.P.workers[w].current_task_id = NoTask
            /\ ~can =>
                 /\ CancelResponse(t) = 400
                 /\ r.P = Pool

\* C17 witness: an ASSIGNED task was cancelled and its worker is IDLE with no
\* current task, while another task is in a status that refuses a cancel.
C17_Witness ==
    \E t \in TaskIds, u \in TaskIds, w \in DOMAIN workers :
        /\ tasks[t].status = CANCELED
        /\ tasks[t].assigned_worker_id = w
        /\ workers[w].status = IDLE
        /\ workers[w].current_task_id = NoTask
        /\ tasks[u].status \in {COMPLETED, FAILED}

\* C18: a lease, heartbeat or done for an unknown worker id is refused and
\* leaves the whole pool as it was (a ready for it registers it); so does a
\* done by a registered worker for a task not assigned to it, and a ready for
\* a registered worker that is neither STARTING nor IDLE.
C18_RejectedRequestsChangeNothing ==
    \A w \in WorkerIds :
        /\ w \notin DOMAIN workers =>
             /\ try_lease_task(Pool, w) = [task |-> NoTask, P |-> Pool]
             /\ \A st \in HeartbeatStatuses :
                    update_worker_heartbeat(Pool, w, st)
                        = [ok |-> FALSE, P |-> Pool]
             /\ \A t \in 1 .. MaxTasks, ok \in BOOLEAN :
                    complete_task(Pool, w, t, ok, NoString, NoString)
                        = [ok |-> FALSE, P |-> Pool]
             /\ w \in DOMAIN mark_worker_ready(Pool, w).P.workers
        /\ w \in DOMAIN workers =>
             /\ \A t \in 1 .. MaxTasks, ok \in BOOLEAN :
                    (t \notin TaskIds \/ tasks[t].assigned_worker_id # w) =>
                        complete_task(Pool, w, t, ok, NoString, NoString)
                            = [ok |-> FALSE, P |-> Pool]
             /\ workers[w].status \notin {STARTING, IDLE} =>
                    mark_worker_ready(Pool, w) = [ok |-> FALSE, P |-> Pool]

\* C18 witness: one worker id is unknown while a registered worker is BUSY
\* with its task and another task is not assigned to it.
C18_Witness ==
    /\ phase = "serving"
    /\ \E w \in WorkerIds : w \notin DOMAIN workers
    /\ \E w \in DOMAIN workers, t \in TaskIds, u \in TaskIds :
          /\ workers[w].status = BUSY
          /\ workers[w].current_task_id = t
          /\ tasks[t].assigned_worker_id = w
          /\ tasks[u].assigned_worker_id # w

\* C19: every protocol error is answered with a 4xx status: a done from a
\* worker the task is not assigned to, a lease from an unknown worker id, and
\* a cancel of a task that is RUNNING or terminal.
C19_ProtocolErrorsAre4xx ==
    phase = "serving" =>
        /\ \A w \in DOMAIN workers, t \in TaskIds, ok \in BOOLEAN :
              tasks[t].assigned_worker_id # w =>
                  DoneResponse(w, t, ok, NoString, NoString) \in 400 .. 499
        /\ \A w \in WorkerIds :
              w \notin DOMAIN workers => LeaseResponse(w) \in 400 .. 499
        /\ \A t \in TaskIds :
              tasks[t].status \in {RUNNING} \cup TerminalStatus =>
                  CancelResponse(t) \in 400 .. 499

\* C20: with max_workers = 1, no state has more than one worker BUSY.
C20_AtMostOneBusyWorker ==
    max_workers = 1 =>
        Cardinality({w \in DOMAIN workers : workers[w].status = BUSY}) <= 1

\* what a scale request does in the current state, for a target and the
\* outcomes of its spawns
ScaleReturn(target, outs) ==
    scale_workers(Pool, target, min_workers, max_workers, outs)

\* workers of pool record P that are neither DEAD nor STOPPING
CurrentCount(P) ==
    Cardinality({w \in DOMAIN P.workers :
                    P.workers[w].status \notin {DEAD, STOPPING}})

\* C21: whatever target is requested and whatever the spawns do, a scale
\* request leaves every BUSY worker as it is: same record (status, task),
\* still tracked, its process not killed.
C21_ScaleSparesBusyWorkers ==
    \A target \in 0 .. MaxScaleTarget, outs \in SpawnOutcomeSeqs :
        LET P == ScaleReturn(target, outs)
        IN  \A w \in DOMAIN workers :
                workers[w].status = BUSY =>
                    /\ P.workers[w] = workers[w]
                    /\ w \in processes => w \in P.processes
                    /\ w \in running => w \in P.running

\* C21 witness: a scale-down has killed an idle worker (DEAD, pid recorded,
\* no longer tracked) while another worker is BUSY with its task.
C21_Witness ==
    \E b \in DOMAIN workers, d \in DOMAIN workers, t \in TaskIds :
        /\ workers[b].status = BUSY
        /\ workers[b].current_task_id = t
        /\ tasks[t].assigned_worker_id = b
        /\ workers[d].status = DEAD
        /\ workers[d].process_id = HasPid
        /\ d \notin processes

StartedWith(n) ==
    /\ Cardinality(DOMAIN workers') = n
    /\ \A w \in DOMAIN workers' :
          /\ workers'[w].status = STARTING
          /\ workers'[w].process_id = HasPid
          /\ w \in processes'

\* the orphan sweep is over before the first spawn, and the first reconcile
\* tick comes only after the spawns of start()
SweepThenSpawnThenMonitor ==
    /\ (workers = <<>> /\ workers' # <<>>) =>
           (phase \notin {"constructed"} /\ orphans = 0)
    /\ (phase # "serving" /\ phase' = "serving") => phase = "started"
    /\ worker_index' # worker_index => phase # "constructed"

SameOutcomeSeqs ==
    {[i \in 1 .. MaxSpawnsPerCall |-> o] : o \in SpawnOutcomes}

\* the pool after one reconcile tick, and after a second one right behind it
ReconcileOnce(outs) == reconcile(Pool, min_workers, outs)

ReconcileTwice(outs1, outs2) ==
    reconcile(ReconcileOnce(outs1), min_workers, outs2)

Unresolved(w) ==
    /\ w \in GeneratedIds
    /\ w \in DOMAIN workers
    /\ workers[w].status = STARTING
    /\ workers[w].process_id = NoPid
    /\ w \notin processes

\* C26: if the UE executable cannot be resolved under the configured engine
\* root, starting the pool fails with a fatal error: start() does not
\* complete and the service does not enter its serving state.
C26_UnresolvedExecutableIsFatal ==
    phase \in {"started", "serving"} => \A w \in WorkerIds : ~Unresolved(w)

\* ---------------------------------------------------------------------
\* run_one_shot_plan.py: the one-shot runner
\* ---------------------------------------------------------------------

\* values of the environment variables: strings of at most MaxEnvLen
\* characters (MaxIframeLen for CUE_IFRAME), as sequences of characters;
\* an unset variable reads as the empty string (os.getenv default "")
MaxEnvLen == 3
MaxIframeLen == 2
Digits == {"1", "2"}
EnvChars == Digits \cup {"-", " ", "x"}
EnvStrings(n) == UNION {[1 .. k -> EnvChars] : k \in 0 .. n}
ExplicitIndexes == {NoIndex, 0, 2}

DigitValue(c) == IF c = "1" THEN 1 ELSE 2

\* str.strip()
RECURSIVE PyLStrip(_)
PyLStrip(s) ==
    IF s # <<>> /\ Head(s) = " " THEN PyLStrip(Tail(s)) ELSE s

RECURSIVE PyRStrip(_)
PyRStrip(s) ==
    IF s # <<>> /\ s[Len(s)] = " "
    THEN PyRStrip(SubSeq(s, 1, Len(s) - 1)) ELSE s

PyStrip(s) == PyRStrip(PyLStrip(s))

\* str.isdigit()
PyIsDigit(s) == s # <<>> /\ \A i \in 1 .. Len(s) : s[i] \in Digits

RECURSIVE DecimalValue(_)
DecimalValue(s) ==
    IF s = <<>> THEN 0
    ELSE 10 * DecimalValue(SubSeq(s, 1, Len(s) - 1)) + DigitValue(s[Len(s)])

\* int(s): surrounding whitespace, an optional sign, decimal digits;
\* anything else is a ValueError
PyInt(s) ==
    LET t == PyStrip(s)
    IN  IF PyIsDigit(t) THEN [ok |-> TRUE, val |-> DecimalValue(t)]
        ELSE IF t # <<>> /\ Head(t) = "-" /\ PyIsDigit(Tail(t))
        THEN [ok |-> TRUE, val |-> 0 - DecimalValue(Tail(t))]
        ELSE [ok |-> FALSE, val |-> NoIndex]

\* value.split("-", 1)[0]
RECURSIVE SplitPrefix(_)
SplitPrefix(s) ==
    IF s = <<>> \/ Head(s) = "-" THEN <<>>
    ELSE <<Head(s)>> \o SplitPrefix(Tail(s))

Contains(s, c) == \E i \in 1 .. Len(s) : s[i] = c

\* _task_index as the task description orders the sources: CUE_IFRAME,
\* then CUE_FRAME, then the flag
_task_index_env_first(explicit, iframe_env, frame_env) ==
    LET iframe_value == PyStrip(iframe_env)
        value == PyStrip(frame_env)
        prefix == PyStrip(SplitPrefix(value))
    IN  IF iframe_value # <<>> /\ PyInt(iframe_value).ok
        THEN [raised |-> FALSE, value |-> PyInt(iframe_value).val]
        ELSE IF value # <<>> /\ Contains(value, "-") /\ PyIsDigit(prefix)
        THEN [raised |-> FALSE, value |-> DecimalValue(prefix)]
        ELSE IF value # <<>> /\ PyInt(value).ok
        THEN [raised |-> FALSE, value |-> PyInt(value).val]
        ELSE IF explicit # NoIndex
        THEN [raised |-> FALSE, value |-> explicit]
        ELSE [raised |-> TRUE, value |-> NoIndex]

\* _task_index(explicit) with CUE_IFRAME = iframe_env, CUE_FRAME = frame_env
_task_index(explicit, iframe_env, frame_env) ==
    LET iframe_value == PyStrip(iframe_env)
        value == PyStrip(frame_env)
        prefix == PyStrip(SplitPrefix(value))
    IN  IF explicit # NoIndex
        THEN [raised |-> FALSE, value |-> explicit]
        ELSE IF iframe_value # <<>> /\ PyInt(iframe_value).ok
        THEN [raised |-> FALSE, value |-> PyInt(iframe_value).val]
        ELSE IF value = <<>>
        THEN [raised |-> TRUE, value |-> NoIndex]
        ELSE IF Contains(value, "-") /\ PyIsDigit(prefix)
        THEN [raised |-> FALSE, value |-> DecimalValue(prefix)]
        ELSE IF PyInt(value).ok
        THEN [raised |-> FALSE, value |-> PyInt(value).val]
        ELSE [raised |-> TRUE, value |-> NoIndex]

\* the runner before its first statement, given the inputs env
ReaderNames == {"stdout", "tailer"}

RunnerState(env) ==
    /\ rpc = "task_index"
    /\ renv = env
    /\ task_index = NoIndex
    /\ exit_code = NoExit
    /\ ue = [state |-> "none", out |-> 0, log |-> 0]
    /\ reporter = [enabled |-> FALSE, last_stage |-> "",
                   last_percent |-> NoPercent, last_update_ts |-> 0]
    /\ readers = [r \in ReaderNames |->
                    [pc |-> "off", pos |-> 0, stage |-> "", percent |-> 0,
                     now |-> 0]]
    /\ pushes = <<>>
    /\ rnow = 0
    /\ TailerState

\* inputs with which every check of run_one_shot_plan passes
GoodEnv ==
    [explicit |-> NoIndex, iframe |-> <<"1">>, frame |-> <<>>,
     plan_exists |-> TRUE, plan_sha256 |-> <<>>, plan_json |-> "object",
     plan_tasks |-> <<1>>, uproject |-> TRUE, ue_cmd |-> TRUE,
     popen_ok |-> TRUE, frame_resolved |-> TRUE, push_may_fail |-> FALSE,
     lines |-> <<>>, ue_exit |-> 0]

\* run_one_shot_plan, first statement: task_index = _task_index(task_index_arg);
\* the RuntimeError is not caught and ends the process with exit code 1
ResolveTaskIndex ==
    /\ rpc = "task_index"
    /\ LET r == _task_index(renv.explicit, renv.iframe, renv.frame)
       IN  /\ task_index' = r.value
           /\ rpc' = IF r.raised THEN "raised" ELSE "plan_path"
           /\ exit_code' = IF r.raised THEN 1 ELSE exit_code
    /\ UNCHANGED <<servicevars, tailvars, renv, ue, reporter, readers, pushes, rnow>>

\* every --task-index, CUE_IFRAME and CUE_FRAME within the bounds
TaskIndexInit ==
    /\ PoolState(0, 0, 0, 0)
    /\ \E e \in ExplicitIndexes, i \in EnvStrings(MaxIframeLen),
          f \in EnvStrings(MaxEnvLen) :
          RunnerState([GoodEnv EXCEPT !.explicit = e, !.iframe = i,
                                      !.frame = f])

TaskIndexNext == ResolveTaskIndex

TaskIndexSpec == TaskIndexInit /\ [][TaskIndexNext]_vars

\* the index the environment provides: CUE_IFRAME when it holds an integer,
\* otherwise CUE_FRAME when it holds an integer or digits before a "-"
IframeProvides == PyStrip(renv.iframe) # <<>> /\ PyInt(renv.iframe).ok

FrameProvides ==
    LET value == PyStrip(renv.frame)
    IN  \/ Contains(value, "-") /\ PyIsDigit(PyStrip(SplitPrefix(value)))
        \/ PyInt(value).ok

EnvIndex ==
    LET value == PyStrip(renv.frame)
    IN  IF IframeProvides THEN PyInt(renv.iframe).val
        ELSE IF ~FrameProvides THEN NoIndex
        ELSE IF Contains(value, "-") /\ PyIsDigit(PyStrip(SplitPrefix(value)))
        THEN DecimalValue(PyStrip(SplitPrefix(value)))
        ELSE PyInt(value).val

MaxShaLen == 2
HexChars == {"a", "A", "b"}
PlanDigest == <<"a", "b">>
ShaStrings == UNION {[1 .. k -> HexChars] : k \in 0 .. MaxShaLen}

\* str.lower()
PyLower(s) == [i \in 1 .. Len(s) |-> IF s[i] = "A" THEN "a" ELSE s[i]]

\* _verify_sha256 that accepts every checksum
_verify_sha256_unchecked(digest, expected) == TRUE

\* _verify_sha256: TRUE when it returns, FALSE when it raises
_verify_sha256(digest, expected) ==
    IF expected = <<>> THEN TRUE
    ELSE PyLower(digest) = PyLower(expected)

\* "task_index" values of the plan's tasks: an integer, -1 for a task
\* without the key (the default of t.get), BadTaskIndex for a value int()
\* rejects
BadTaskIndex == -998
MaxPlanTasks == 2
TaskEntries == {1, 2, -1, BadTaskIndex}
PlanTaskLists == UNION {[1 .. k -> TaskEntries] : k \in 0 .. MaxPlanTasks}

\* next((t for t in tasks if int(t.get("task_index", -1)) == task_index), None)
RECURSIVE find_task(_, _)
find_task(entries, idx) ==
    IF entries = <<>> THEN "none"
    ELSE IF Head(entries) = BadTaskIndex THEN "raised"
    ELSE IF Head(entries) = idx THEN "found"
    ELSE find_task(Tail(entries), idx)

\* return _fail(...): the runner returns 1
Fail ==
    /\ rpc' = "failed"
    /\ exit_code' = 1

\* an exception nothing catches: the process ends with exit code 1
Raise ==
    /\ rpc' = "raised"
    /\ exit_code' = 1

Pass(next) ==
    /\ rpc' = next
    /\ exit_code' = exit_code

\* if not plan_path.exists(): return _fail(...)
CheckPlanExists ==
    /\ rpc = "plan_path"
    /\ IF renv.plan_exists THEN Pass("sha256") ELSE Fail
    /\ UNCHANGED <<servicevars, tailvars, renv, task_index, ue, reporter, readers,
                   pushes, rnow>>

\* try: _verify_sha256(plan_path, plan_sha256) except: return _fail(...)
VerifySha256 ==
    /\ rpc = "sha256"
    /\ IF _verify_sha256(PlanDigest, renv.plan_sha256)
       THEN Pass("parse") ELSE Fail
    /\ UNCHANGED <<servicevars, tailvars, renv, task_index, ue, reporter, readers,
                   pushes, rnow>>

\* try: plan = json.loads(...) except: return _fail(...)
ParsePlan ==
    /\ rpc = "parse"
    /\ IF renv.plan_json = "invalid" THEN Fail ELSE Pass("find_task")
    /\ UNCHANGED <<servicevars, tailvars, renv, task_index, ue, reporter, readers,
                   pushes, rnow>>

\* tasks = plan.get("tasks") or []; task = next(...); a plan that is not a
\* JSON object has no get()
FindTask ==
    /\ rpc = "find_task"
    /\ LET found == IF renv.plan_json # "object" THEN "raised"
                    ELSE find_task(renv.plan_tasks, task_index)
       IN  CASE found = "found" -> Pass("uproject")
             [] found = "none" -> Fail
             [] OTHER -> Raise
    /\ UNCHANGED <<servicevars, tailvars, renv, task_index, ue, reporter, readers,
                   pushes, rnow>>

\* _resolve_uproject: the first candidate that exists
ResolveUproject ==
    /\ rpc = "uproject"
    /\ IF renv.uproject THEN Pass("ue_cmd") ELSE Fail
    /\ UNCHANGED <<servicevars, tailvars, renv, task_index, ue, reporter, readers,
                   pushes, rnow>>

\* _resolve_ue_cmd: the first candidate that exists
ResolveUeCmd ==
    /\ rpc = "ue_cmd"
    /\ IF renv.ue_cmd THEN Pass("launch") ELSE Fail
    /\ UNCHANGED <<servicevars, tailvars, renv, task_index, ue, reporter, readers,
                   pushes, rnow>>

\* progress_reporter = _CueFrameProgressReporter(); ue_log_tailer.start();
\* subprocess.Popen(launch_cmd, ...); a Popen that raises is caught: exit
\* code 1 and the tailer is stopped
Launch ==
    /\ rpc = "launch"
    /\ reporter' = [reporter EXCEPT !.enabled = renv.frame_resolved]
    /\ IF renv.popen_ok
       THEN /\ ue' = [ue EXCEPT !.state = "running"]
            /\ readers' = [r \in ReaderNames |->
                             [readers[r] EXCEPT !.pc = "read"]]
            /\ Pass("running")
       ELSE /\ ue' = ue
            /\ readers' = readers
            /\ rpc' = "done"
            /\ exit_code' = 1
    /\ UNCHANGED <<servicevars, tailvars, renv, task_index, pushes, rnow>>

\* every outcome of the checks before the launch
CheckIframes == {<<"1">>, <<"-", "1">>, <<"x">>}

ChecksInit ==
    /\ PoolState(0, 0, 0, 0)
    /\ \E i \in CheckIframes, pe \in BOOLEAN, sha \in ShaStrings,
          pj \in {"invalid", "array", "object"}, pt \in PlanTaskLists,
          up \in BOOLEAN, uc \in BOOLEAN, po \in BOOLEAN :
          RunnerState([GoodEnv EXCEPT !.iframe = i, !.plan_exists = pe,
                                      !.plan_sha256 = sha, !.plan_json = pj,
                                      !.plan_tasks = pt, !.uproject = up,
                                      !.ue_cmd = uc, !.popen_ok = po])

ChecksNext ==
    \/ ResolveTaskIndex
    \/ CheckPlanExists
    \/ VerifySha256
    \/ ParsePlan
    \/ FindTask
    \/ ResolveUproject
    \/ ResolveUeCmd
    \/ Launch

ChecksSpec == ChecksInit /\ [][ChecksNext]_vars

\* the checks of the runner, in the order of the task description
CheckOrder ==
    <<"plan_path", "sha256", "parse", "find_task", "uproject", "ue_cmd",
      "launch">>

ChecksumMatches ==
    \/ renv.plan_sha256 = <<>>
    \/ PyLower(renv.plan_sha256) = PlanDigest

TaskExists ==
    /\ renv.plan_json = "object"
    /\ \E i \in 1 .. Len(renv.plan_tasks) :
          /\ renv.plan_tasks[i] = task_index
          /\ \A j \in 1 .. i - 1 : renv.plan_tasks[j] # BadTaskIndex

CheckHolds(k) ==
    CASE k = 1 -> renv.plan_exists
      [] k = 2 -> ChecksumMatches
      [] k = 3 -> renv.plan_json # "invalid"
      [] k = 4 -> TaskExists
      [] k = 5 -> renv.uproject
      [] k = 6 -> renv.ue_cmd

\* C28: the runner launches UE only after, in this order, the plan file
\* exists, a non-empty checksum matches the file bytes (an empty checksum
\* skips the check), the plan parses, a task with the resolved index exists,
\* and a project file and UE binary are resolved; if any of these fails it
\* ends with exit code 1 without launching UE.
C28_ChecksBeforeLaunch ==
    [][/\ ue'.state # "none" =>
             /\ rpc = "launch"
             /\ \A k \in 1 .. 6 : CheckHolds(k)
       /\ \A k \in 1 .. 6 :
             rpc = CheckOrder[k] =>
                 IF CheckHolds(k)
                 THEN /\ rpc' = CheckOrder[k + 1]
                      /\ exit_code' = NoExit
                 ELSE /\ rpc' \in {"failed", "raised"}
                      /\ exit_code' = 1
                      /\ ue'.state = "none"
       /\ rpc \in {"failed", "raised"} =>
             /\ rpc' = rpc
             /\ exit_code' = 1
             /\ ue'.state = "none"]_vars

\* C28 witness: UE has been launched for a plan whose checksum was given in
\* upper case, after the task was found behind another one.
C28_Witness ==
    /\ rpc = "running"
    /\ ue.state = "running"
    /\ renv.plan_sha256 = <<"A", "b">>
    /\ renv.plan_tasks = <<2, 1>>
    /\ task_index = 1
    /\ exit_code = NoExit

\* ---------------------------------------------------------------------
\* run_one_shot_plan.py: progress of the launched UE process
\* ---------------------------------------------------------------------

\* percentages in hundredths of a percent; time.monotonic() in seconds
MaxClock == 2
HalfPercent == 50
FullPercent == 10000
DedupSeconds == 2

\* lines UE prints: "[OpenCueCmdExecutor] Render progress: p%",
\* "[OpenCueCmdExecutor] Encoding progress: p%", or anything else
RenderLine(p) == [kind |-> "render", percent |-> p]
EncodingLine(p) == [kind |-> "encoding", percent |-> p]
OtherLine == [kind |-> "other", percent |-> 0]

\* _parse_ue_progress_line
_parse_ue_progress_line(line) ==
    CASE line.kind = "render" ->
            [matched |-> TRUE, stage |-> "Rendering", percent |-> line.percent]
      [] line.kind = "encoding" ->
            [matched |-> TRUE, stage |-> "Encoding", percent |-> line.percent]
      [] OTHER -> [matched |-> FALSE, stage |-> "", percent |-> 0]

Abs(x) == IF x < 0 THEN 0 - x ELSE x

\* normalized = max(0.0, min(100.0, float(percent)))
Normalized(percent) == Max(0, Min(FullPercent, percent))

\* percentages a with at most one decimal for which float(a + 0.5) - float(a)
\* is below 0.5 in IEEE 754 doubles (0.7 - 0.2 = 0.49999999999999994):
\* 0.2, 0.9, 1.8, 3.6, 7.7, 15.9, 31.8 and 63.6
RoundsBelowHalf == {20, 90, 180, 360, 770, 1590, 3180, 6360}

\* abs(a - b) < 0.5 as computed on the doubles nearest to a and b, for
\* percentages with at most one decimal
FloatDeltaBelowHalf(a, b) ==
    \/ Abs(a - b) < HalfPercent
    \/ Abs(a - b) = HalfPercent /\ Min(a, b) \in RoundsBelowHalf

\* the test of report() that drops an update
Dropped(rep, stage, normalized, now) ==
    /\ stage = rep.last_stage
    /\ rep.last_percent >= 0
    /\ FloatDeltaBelowHalf(normalized, rep.last_percent)
    /\ now - rep.last_update_ts < DedupSeconds

\* the lines reader r can read so far: the pipe for the stdout loop, the
\* log file for the tailer
Available(r) == IF r = "stdout" THEN ue.out ELSE ue.log

\* UE prints its next line on stdout (-stdout -FullStdOutLogOutput)
UeWriteStdout ==
    /\ ue.state = "running"
    /\ ue.out < Len(renv.lines)
    /\ ue' = [ue EXCEPT !.out = @ + 1]
    /\ UNCHANGED <<servicevars, tailvars, rpc, renv, task_index, exit_code, reporter,
                   readers, pushes, rnow>>

\* UE appends its next line to the log file (-AbsLog, -forcelogflush)
UeWriteLog ==
    /\ ue.state = "running"
    /\ ue.log < Len(renv.lines)
    /\ ue' = [ue EXCEPT !.log = @ + 1]
    /\ UNCHANGED <<servicevars, tailvars, rpc, renv, task_index, exit_code, reporter,
                   readers, pushes, rnow>>

\* UE exits after its last line
UeExit ==
    /\ ue.state = "running"
    /\ ue.out = Len(renv.lines)
    /\ ue.log = Len(renv.lines)
    /\ ue' = [ue EXCEPT !.state = "exited"]
    /\ UNCHANGED <<servicevars, tailvars, rpc, renv, task_index, exit_code, reporter,
                   readers, pushes, rnow>>

\* "for line in process.stdout" / "line = stream.readline()", then
\* report_from_line up to the call of report; the tailer reads only while
\* its stop event is not set
ReadLine(r) ==
    /\ readers[r].pc = "read"
    /\ readers[r].pos < Available(r)
    /\ r = "tailer" => rpc = "running"
    /\ LET parsed == _parse_ue_progress_line(renv.lines[readers[r].pos + 1])
       IN  readers' = [readers EXCEPT
               ![r].pos = @ + 1,
               ![r].pc = IF parsed.matched THEN "report" ELSE "read",
               ![r].stage = parsed.stage,
               ![r].percent = parsed.percent]
    /\ UNCHANGED <<servicevars, tailvars, rpc, renv, task_index, exit_code, ue,
                   reporter, pushes, rnow>>

\* report(), up to the push: the _enabled test, normalized, now, the drop test
ReportCheck(r) ==
    /\ readers[r].pc = "report"
    /\ LET normalized == Normalized(readers[r].percent)
       IN  readers' = [readers EXCEPT
               ![r].pc = IF \/ ~reporter.enabled
                            \/ Dropped(reporter, readers[r].stage,
                                       normalized, rnow)
                         THEN "read" ELSE "push",
               ![r].percent = normalized,
               ![r].now = rnow]
    /\ UNCHANGED <<servicevars, tailvars, rpc, renv, task_index, exit_code, ue,
                   reporter, pushes, rnow>>

\* report(): self._frame.setFrameStateDisplayOverride(...) returns or raises
ReportPush(r) ==
    /\ readers[r].pc = "push"
    /\ \E ok \in (IF renv.push_may_fail THEN BOOLEAN ELSE {TRUE}) :
          /\ pushes' = Append(pushes, [stage |-> readers[r].stage,
                                       percent |-> readers[r].percent,
                                       ok |-> ok])
          /\ readers' = [readers EXCEPT
                 ![r].pc = IF ok THEN "pushed" ELSE "except"]
    /\ UNCHANGED <<servicevars, tailvars, rpc, renv, task_index, exit_code, ue,
                   reporter, rnow>>

\* report(): the assignments behind the push, or the except clause
ReportRecord(r) ==
    /\ readers[r].pc \in {"pushed", "except"}
    /\ reporter' = IF readers[r].pc = "pushed"
                   THEN [reporter EXCEPT
                            !.last_stage = readers[r].stage,
                            !.last_percent = readers[r].percent,
                            !.last_update_ts = readers[r].now]
                   ELSE [reporter EXCEPT !.enabled = FALSE]
    /\ readers' = [readers EXCEPT ![r].pc = "read"]
    /\ UNCHANGED <<servicevars, tailvars, rpc, renv, task_index, exit_code, ue,
                   pushes, rnow>>

\* a second passes
Tick ==
    /\ rpc = "running"
    /\ rnow < MaxClock
    /\ rnow' = rnow + 1
    /\ UNCHANGED <<servicevars, tailvars, rpc, renv, task_index, exit_code, ue,
                   reporter, readers, pushes>>

\* end of the stdout loop: exit_code = process.wait(); finally
\* ue_log_tailer.stop(); return exit_code
Finish ==
    /\ rpc = "running"
    /\ ue.state = "exited"
    /\ readers["stdout"].pc = "read"
    /\ readers["stdout"].pos = Len(renv.lines)
    /\ exit_code' = renv.ue_exit
    /\ rpc' = "done"
    /\ UNCHANGED <<servicevars, tailvars, renv, task_index, ue, reporter, readers,
                   pushes, rnow>>

\* the run of the task description: UE prints "Render progress: 50%", then
\* "Render progress: 100%"
TwoStepRender == <<RenderLine(5000), RenderLine(FullPercent)>>

ProgressScripts ==
    {TwoStepRender,
     <<RenderLine(5000), OtherLine, EncodingLine(5020)>>,
     <<RenderLine(20), RenderLine(70), RenderLine(120)>>}

ProgressInit ==
    /\ PoolState(0, 0, 0, 0)
    /\ \E ls \in ProgressScripts, code \in {0, 1}, fr \in BOOLEAN,
          pf \in BOOLEAN :
          RunnerState([GoodEnv EXCEPT !.lines = ls, !.ue_exit = code,
                                      !.frame_resolved = fr,
                                      !.push_may_fail = pf])

ProgressNext ==
    \/ ChecksNext
    \/ UeWriteStdout
    \/ UeWriteLog
    \/ UeExit
    \/ \E r \in ReaderNames : ReadLine(r)
    \/ \E r \in ReaderNames : ReportCheck(r)
    \/ \E r \in ReaderNames : ReportPush(r)
    \/ \E r \in ReaderNames : ReportRecord(r)
    \/ Tick
    \/ Finish

ProgressSpec == ProgressInit /\ [][ProgressNext]_vars

\* C29: after one push to the outer scheduler fails, the progress reporter
\* makes no further push attempt for the rest of the process, whichever
\* thread delivers later lines, and the failure never propagates: the
\* runner's exit code is unaffected.
C29_ReporterLatchesOff ==
    /\ \A i \in 1 .. Len(pushes) - 1 : pushes[i].ok
    /\ rpc = "done" => exit_code = renv.ue_exit

\* C30: when UE emits 'Render progress: 50%' and then 'Render progress:
\* 100%' and exits 0, the runner exits 0 and exactly two updates are pushed,
\* Rendering 50.0 then Rendering 100.0, for every interleaving of the stdout
\* reader and the log-tailer thread that both feed the same reporter.
C30_ExactlyTwoUpdates ==
    (/\ rpc = "done"
     /\ renv.lines = TwoStepRender
     /\ renv.ue_exit = 0
     /\ renv.frame_resolved
     /\ ~renv.push_may_fail
     /\ \A r \in ReaderNames : readers[r].pc = "read")
    => /\ exit_code = 0
       /\ pushes = <<[stage |-> "Rendering", percent |-> 5000, ok |-> TRUE],
                     [stage |-> "Rendering", percent |-> FullPercent,
                      ok |-> TRUE]>>

\* the drop rule of the task description, on the reporter's record of the
\* last emitted update
DropRule(stage, normalized, now) ==
    /\ stage = reporter.last_stage
    /\ Abs(normalized - reporter.last_percent) < HalfPercent
    /\ now - reporter.last_update_ts < DedupSeconds

\* C31: the reporter drops a parsed update exactly when its stage equals the
\* last emitted stage, the absolute difference to the last emitted
\* percentage (after clamping to [0,100]) is below 0.5, and less than 2.0 s
\* have passed since the last emitted update; every other update is pushed,
\* and the first update is always pushed.
C31_DropRuleExact ==
    [][\A r \in ReaderNames :
          (ReportCheck(r) /\ reporter.enabled) =>
              /\ readers'[r].pc = "read" <=>
                     DropRule(readers[r].stage,
                              Normalized(readers[r].percent), rnow)
              /\ reporter.last_percent = NoPercent =>
                     readers'[r].pc = "push"]_vars

\* ---------------------------------------------------------------------
\* one reconcile tick on every pool of up to MaxTickWorkers workers
\* ---------------------------------------------------------------------
MaxTickWorkers == 3
TickAges == {0, WORKER_STARTUP_GRACE_SEC, AgeCap}
TickHbs == {0, WORKER_HEARTBEAT_TIMEOUT_SEC, HbCap}

\* what a worker record can be when a tick starts: spawned by the pool
\* (pid, tracked process, spawn time), declared dead by an earlier tick, or
\* registered by ready for an id the pool did not spawn (no pid)
SpawnedSlots(statuses) ==
    [kind : {"spawned"}, status : statuses, age : TickAges, hb : TickHbs,
     alive : BOOLEAN]

ExternalSlots(statuses) ==
    [kind : {"external"}, status : statuses, age : {AgeCap}, hb : TickHbs,
     alive : {TRUE}]

DeadSlot ==
    [kind |-> "dead", status |-> DEAD, age |-> AgeCap, hb |-> HbCap,
     alive |-> FALSE]

AbsentSlot ==
    [kind |-> "absent", status |-> DEAD, age |-> AgeCap, hb |-> HbCap,
     alive |-> FALSE]

FirstSlots ==
    SpawnedSlots({STARTING, IDLE, BUSY}) \cup ExternalSlots({IDLE, BUSY})
        \cup {DeadSlot}

OtherSlots ==
    SpawnedSlots({STARTING, IDLE}) \cup ExternalSlots({IDLE})
        \cup {DeadSlot, AbsentSlot}

SlotWorker(s, tid) ==
    [status |-> s.status,
     process_id |-> IF s.kind = "spawned" THEN HasPid ELSE NoPid,
     current_task_id |-> IF s.status = BUSY THEN tid ELSE NoTask,
     last_heartbeat |-> s.hb, tasks_completed |-> 0, tasks_failed |-> 0,
     leases |-> 0]

\* the pool made of the slots s0, s1, s2 (ids 0, 1, 2) with one task, leased
\* by worker 0 when that one is BUSY
TickPool(minw, s0, s1, s2) ==
    LET slots == <<s0, s1, s2>>
        ids == {i \in 0 .. MaxTickWorkers - 1 : slots[i + 1].kind # "absent"}
        spawned == {i \in ids : slots[i + 1].kind = "spawned"}
    IN  /\ phase = "serving"
        /\ min_workers = minw
        /\ max_workers = MaxTickWorkers
        /\ workers = [i \in ids |-> SlotWorker(slots[i + 1], 1)]
        /\ order = [k \in 1 .. Cardinality(ids) |-> k - 1]
        /\ processes = spawned
        /\ spawn_times = [i \in spawned |-> slots[i + 1].age]
        /\ worker_index = MaxTickWorkers
        /\ running = {i \in spawned : slots[i + 1].alive}
        /\ tasks = <<[NewTask(0) EXCEPT
                        !.status = IF s0.status = BUSY THEN ASSIGNED
                                   ELSE PENDING,
                        !.assigned_worker_id = IF s0.status = BUSY THEN 0
                                               ELSE NoWorker]>>
        /\ utcnow = 1
        /\ stat_cap = 0
        /\ orphans = 0

TickInit ==
    /\ RunnerNotStarted
    /\ \E minw \in 0 .. MaxMinWorkers, s0 \in FirstSlots,
          s1 \in OtherSlots, s2 \in OtherSlots :
          /\ s1.kind = "absent" => s2.kind = "absent"
          /\ TickPool(minw, s0, s1, s2)

\* one iteration of _monitor_workers, the spawns of the tick all meeting
\* the same condition of the host
TickReconcile ==
    /\ phase = "serving"
    /\ \E outs \in SameOutcomeSeqs :
          SetPool(reconcile(Pool, min_workers, outs))
    /\ phase' = "ticked"
    /\ UNCHANGED <<min_workers, max_workers, stat_cap, orphans, runnervars,
                   utcnow>>

TickNext == TickReconcile

TickSpec == TickInit /\ [][TickNext]_vars

\* the workers found dead by the scan of the tick that starts now, the live
\* count the tick compares with min_workers, and the workers it launches
\* when every spawn succeeds
TickDeadIds == reconcile_dead_ids(Pool)

TickLiveCount ==
    Cardinality(live_workers(reconcile_scan(Pool, order, <<>>).P))

TickSpawned ==
    LET after == reconcile(Pool, min_workers, AllOk)
    IN  {w \in DOMAIN after.workers :
            /\ w \in after.processes
            /\ w \notin DOMAIN workers \/ SeqContains(TickDeadIds, w)}

\* C32: a reconcile tick spawns workers only when the count of workers in
\* STARTING, IDLE or BUSY is below min_workers, and then spawns exactly
\* min_workers minus that count, re-using the ids of workers found dead in
\* this tick before allocating fresh ids; when the count is already at or
\* above min_workers it spawns nothing, however many workers died.
C32_TickSpawnsUpToMin ==
    phase = "serving" =>
        LET missing == min_workers - TickLiveCount
            reused == Min(missing, Len(TickDeadIds))
        IN  IF missing <= 0 THEN TickSpawned = {}
            ELSE /\ Cardinality(TickSpawned) = missing
                 /\ \A k \in 1 .. reused : TickDeadIds[k] \in TickSpawned
                 /\ Cardinality(TickSpawned \ DOMAIN workers)
                        = missing - reused

\* the two timeouts of the task description, for a worker of the pool
TimedOut(w) ==
    \/ /\ workers[w].status \in {IDLE, BUSY}
       /\ age_since_spawn(Pool, w) >= WORKER_STARTUP_GRACE_SEC
       /\ workers[w].last_heartbeat > WORKER_HEARTBEAT_TIMEOUT_SEC
    \/ /\ workers[w].status = STARTING
       /\ age_since_spawn(Pool, w) > WORKER_STARTUP_TIMEOUT_SEC

C34_AssignNeedsPendingAndIdle ==
    \A t \in 1 .. Len(tasks), w \in DOMAIN workers :
        LET a == assign_task_to_worker(Pool, t, w)
        IN  IF tasks[t].status = PENDING /\ workers[w].status = IDLE
            THEN a.ok
            ELSE ~a.ok /\ a.P = Pool

\* C35: a worker auto-registered through ready for an unknown id (a UE
\* process the pool did not spawn) that keeps sending heartbeats and lease
\* polls stays IDLE or BUSY: reconcile never marks it DEAD and never
\* re-queues its task while its heartbeat is fresh.
C35_ExternalWorkerSurvivesTick ==
    phase = "serving" =>
        \A w \in ExternalIds \cap DOMAIN workers :
            (/\ workers[w].status \in {IDLE, BUSY}
             /\ workers[w].process_id = NoPid
             /\ workers[w].last_heartbeat <= WORKER_HEARTBEAT_TIMEOUT_SEC) =>
                LET after == reconcile(Pool, min_workers, AllOk)
                    t == workers[w].current_task_id
                IN  /\ after.workers[w].status \in {IDLE, BUSY}
                    /\ t # NoTask => after.tasks[t] = tasks[t]

\* ---------------------------------------------------------------------
\* C36: after any sequence of pool operations, every task in PENDING has
\* a null assigned_worker_id: a task records a worker id only from the
\* moment it is leased, and a re-queue clears it.
C36_PendingHasNoWorker ==
    \A t \in TaskIds :
        tasks[t].status = PENDING => tasks[t].assigned_worker_id = NoWorker

\* a task that was leased and then re-queued by a reconcile tick: its dead
\* worker still names it, and the task waits again
C36_Witness ==
    \E w \in DOMAIN workers : \E t \in TaskIds :
        /\ workers[w].status = DEAD
        /\ workers[w].current_task_id = t
        /\ tasks[t].status = PENDING
        /\ tasks[t].assigned_worker_id = NoWorker

\* ---------------------------------------------------------------------
\* C37: for every worker record, tasks_completed + tasks_failed never
\* exceeds the number of leases granted to that record: each leased task
\* is counted at most once, even if done is reported more than once or
\* after the task was canceled.  The three numbers are exact below
\* stat_cap, and a counter at stat_cap stands for at least stat_cap.
C37_CountedAtMostOncePerLease ==
    \A w \in DOMAIN workers :
        workers[w].leases < stat_cap =>
            workers[w].tasks_completed + workers[w].tasks_failed
                <= workers[w].leases

\* ---------------------------------------------------------------------
\* C38: a failed spawn never leaves a worker record that counts as live:
\* whenever spawn_worker raises (the process launch fails or the UE
\* executable cannot be found), the record it registered is DEAD, not
\* STARTING, IDLE or BUSY, so scale and reconcile do not count it.
C38_FailedSpawnLeavesDead ==
    phase \in {"swept", "started", "serving"} =>
        \A outcome \in SpawnOutcomes :
            \A worker_id \in {NoWorker} \cup DOMAIN workers :
                LET r == spawn_worker(Pool, worker_id, outcome)
                    wid == IF worker_id = NoWorker THEN worker_index
                           ELSE worker_id
                IN  ~r.ok => r.P.workers[wid].status = DEAD

\* ---------------------------------------------------------------------
\* C39: no pool operation ever puts a task in RUNNING: in every reachable
\* state each task's status is one of PENDING, ASSIGNED, COMPLETED,
\* FAILED, CANCELED, so a leased task stays cancellable until done is
\* reported.
C39_NoTaskRunning ==
    \A t \in TaskIds :
        /\ tasks[t].status \in {PENDING, ASSIGNED, COMPLETED, FAILED, CANCELED}
        /\ tasks[t].status = ASSIGNED => cancel_task(Pool, t).ok

\* a leased task in the hands of a BUSY worker, before any done
C39_Witness ==
    \E w \in DOMAIN workers : \E t \in TaskIds :
        /\ workers[w].status = BUSY
        /\ workers[w].current_task_id = t
        /\ tasks[t].status = ASSIGNED
        /\ tasks[t].assigned_worker_id = w
        /\ workers[w].tasks_completed + workers[w].tasks_failed = 0

\* ---------------------------------------------------- _UELogTailer._run
\* The log file is a sequence of characters; UE appends whole lines to it
\* (-forcelogflush) and may start it over.  uelog.owed is history: the
\* lines appended so far, without those that were cut off before the
\* tailer had read them.
MaxLogAppends == 4
MaxTruncations == 1
LogLines == {<<"a", "\n">>, <<"b", "b", "\n">>}

IsPrefix(s, t) == Len(s) <= Len(t) /\ SubSeq(t, 1, Len(s)) = s

\* stream.readline() at offset pos: up to and including the next newline,
\* what is left of the file when there is none, '' at or past the end
readline(content, pos) ==
    IF pos >= Len(content) THEN <<>>
    ELSE LET ends == {i \in pos + 1 .. Len(content) : content[i] = "\n"}
             last == IF ends = {} THEN Len(content)
                     ELSE CHOOSE i \in ends : \A j \in ends : i <= j
         IN  SubSeq(content, pos + 1, last)

\* UE opens its log file
UeCreateLog ==
    /\ ue.state = "running"
    /\ ~uelog.exists
    /\ uelog' = [uelog EXCEPT !.exists = TRUE]
    /\ UNCHANGED <<servicevars, rpc, renv, task_index, exit_code, ue,
                   reporter, readers, pushes, rnow, tailer>>

\* UE appends one line and flushes
UeAppendLine(l) ==
    /\ ue.state = "running"
    /\ uelog.exists
    /\ uelog.appends < MaxLogAppends
    /\ uelog' = [uelog EXCEPT !.content = @ \o l,
                              !.owed = Append(@, l),
                              !.appends = @ + 1]
    /\ UNCHANGED <<servicevars, rpc, renv, task_index, exit_code, ue,
                   reporter, readers, pushes, rnow, tailer>>

\* UE starts the file over: its size drops to 0
UeTruncateLog ==
    /\ ue.state = "running"
    /\ uelog.exists
    /\ uelog.content # <<>>
    /\ uelog.truncations < MaxTruncations
    /\ uelog' = [uelog EXCEPT !.content = <<>>,
                              !.owed = IF IsPrefix(tailer.delivered, @)
                                       THEN tailer.delivered ELSE @,
                              !.truncations = @ + 1]
    /\ UNCHANGED <<servicevars, rpc, renv, task_index, exit_code, ue,
                   reporter, readers, pushes, rnow, tailer>>

\* outer loop of _run: "if not self._path.exists(): sleep; continue", then
\* open and stream.seek(position)
TailOpen ==
    /\ rpc = "running"
    /\ tailer.pc = "closed"
    /\ uelog.exists
    /\ tailer' = [tailer EXCEPT !.pc = "read"]
    /\ UNCHANGED <<servicevars, rpc, renv, task_index, exit_code, ue,
                   reporter, readers, pushes, rnow, uelog>>

\* inner loop: line = stream.readline(); a non-empty line moves position
\* to stream.tell() and goes to on_line, an empty one leads to the sleep
TailReadLine ==
    /\ rpc = "running"
    /\ tailer.pc = "read"
    /\ LET line == readline(uelog.content, tailer.position)
       IN  tailer' = IF line # <<>>
                     THEN [tailer EXCEPT
                             !.position = @ + Len(line),
                             !.delivered = Append(@, line)]
                     ELSE [tailer EXCEPT !.pc = "slept"]
    /\ UNCHANGED <<servicevars, rpc, renv, task_index, exit_code, ue,
                   reporter, readers, pushes, rnow, uelog>>

\* after the sleep: "if self._path.stat().st_size < position: break",
\* which leaves the with block and returns to the outer loop
TailCheckSize ==
    /\ rpc = "running"
    /\ tailer.pc = "slept"
    /\ tailer' = [tailer EXCEPT
                    !.pc = IF Len(uelog.content) < tailer.position
                           THEN "closed" ELSE "read"]
    /\ UNCHANGED <<servicevars, rpc, renv, task_index, exit_code, ue,
                   reporter, readers, pushes, rnow, uelog>>

\* one run of the runner, seen from the log file: UE writes nothing on
\* stdout
TailInit ==
    /\ PoolState(0, 0, 0, 0)
    /\ \E code \in {0, 1} : RunnerState([GoodEnv EXCEPT !.ue_exit = code])

TailNext ==
    \/ ChecksNext
    \/ UeCreateLog
    \/ \E l \in LogLines : UeAppendLine(l)
    \/ UeTruncateLog
    \/ UeExit
    \/ TailOpen
    \/ TailReadLine
    \/ TailCheckSize
    \/ Finish

TailSpec == TailInit /\ [][TailNext]_vars

\* C40: while it runs, the log tailer delivers every complete line
\* appended to the UE log file to the reporter exactly once and in order,
\* including lines written after the file has been truncated and
\* rewritten (it then resumes from the start of the new content): what it
\* has delivered is always the beginning of the lines appended, and all of
\* them once it has found the end of the file where its position is.
C40_TailerDeliversEachLineOnce ==
    rpc = "running" =>
        /\ IsPrefix(tailer.delivered, uelog.owed)
        /\ (tailer.pc = "slept" /\ tailer.position = Len(uelog.content)) =>
               tailer.delivered = uelog.owed

====
